---------------------------- MODULE Spec2Model ----------------------------
(***************************************************************************)
(* A model of the ownership scripts of the community repository:           *)
(*   hack/generate-owners-report.py   (alias expansion, pruning, loading,  *)
(*                                     longest-prefix resolution)          *)
(*   hack/guess-subproject-owners.py  (fetch, expansion, consensus)        *)
(*   hack/verify-subproject-owners.py (the same pipeline, older form)      *)
(*   do_things_with_sigs_yaml.py      (repositories per sig)               *)
(*                                                                         *)
(* Python strings are sequences of tokens; a token is a TLA+ string that   *)
(* stands for one or more characters none of which is "/".  Lists are      *)
(* sequences, dicts are functions, sets are sets.  Where Python leaves     *)
(* the order of a list open (list(set(...)), the items of a Python 2       *)
(* dict) the model takes every order.                                      *)
(***************************************************************************)
EXTENDS Integers, Sequences, FiniteSets, TLC

VARIABLES
    pc,             \* position of the running script or function
    fn,             \* expansion: which of the two expansion functions runs
    entries,        \* expansion: argument `entries`
    aliases,        \* expansion: argument `aliases`
    idx,            \* expansion: index of the loop `for x in entries`
    expanded,       \* expansion: the local set `expanded`
    result,         \* expansion: the returned list
    all_owners,     \* all_owners['owners'], path -> record: the argument of
                    \* prune_dupe_reviewers, and main's table of loaded records
    pruned_owners,  \* pruning: the shallow copy that is returned
    owners_before,  \* pruning: the records as they were at the call (history)
    pr_todo,        \* pruning: paths the outer loop has not visited yet
    pr_path,        \* pruning: the path the outer loop is at (<<>>: none)
    pr_a,           \* pruning: index of the loop `for a in owners['approvers']`
    pr_calls,       \* pruning: the calls of prune_dupe_reviewers that have returned
    owners_once,    \* pruning: the records as the first call returned them (history)
    sigs,           \* sigs.yaml report: sigs['sigs'], the list of sigs
    committees,     \* sigs.yaml report: sigs['committees'], groups the script never reads
    sg_i,           \* sigs.yaml report: index of the loop `for sig in sigs['sigs']`
    repos,          \* sigs.yaml report: the dict repo -> owning sig names
    report,         \* sigs.yaml report: the lines printed, in order
    sql,            \* sigs.yaml report: the update statements written, in order
    sigs_yaml,      \* owners report: the dataset, [sigs, committees] lists of groups
    owners_yaml,    \* owners report: the persisted owners table (owners.yaml)
    all_subprojects,       \* owners report: the dict name -> subproject, in dict order
    owners_to_subprojects, \* owners report: the dict path -> guess
    owners_trie,    \* owners report: the StringTrie, list of segments -> name
    emitted,        \* owners report: the dataset dumped to stdout (<<>>: nothing yet)
    script,         \* consensus: the script that runs, "guess" or "verify"
    groups,         \* consensus: groups['sigs'], the sigs of the loaded document
    remote,         \* consensus: what a GET of each URI answers
    workdir,        \* consensus: the cached files of the work directory, file -> document
    paths,          \* consensus: the local dict `paths` of the subproject being loaded
    log,            \* consensus: the warnings and findings logged or printed, in order
    cn_sig,         \* consensus: index of the loop `for sig in sigs`
    cn_sp,          \* consensus: index of the loop `for sp in subprojects` (0: not entered)
    cn_uri,         \* consensus: index of the loop `for uri in sp['owners']` (0: not entered)
    written,        \* consensus: the document written back to sigs.yaml (<<>>: nothing yet)
    cause,          \* consensus: the exception that ended the run ("": none)
    cv_from,        \* path conversion: what the round trip starts from, "uri" or "path"
    cv_trace,       \* path conversion: the input and the results of the conversions so far
    repo_files,     \* refresh: the OWNERS* files below repo_path, file path -> document
    owners_file,    \* refresh: owners.yaml, missing, empty or the dumped tables
    all_aliases,    \* refresh: all_owners['aliases'], path -> document
    file_paths,     \* refresh: the files the first pass has not visited yet, sorted
    owners_paths,   \* refresh: the keys the second pass has not visited yet
    runs,           \* refresh: the runs of main that have finished
    at_start,       \* refresh: the tables as load_owners_yaml returned them (history)
    parsed,         \* refresh: the paths this run has parsed (history)
    parsed_from,    \* refresh: path -> the document it was parsed from (history)
    expansions,     \* refresh: path -> the times its record was expanded (history)
    owners_keys     \* refresh: the keys of all_owners['owners'], in the order of insertion

exVars == <<fn, entries, aliases, idx, expanded, result>>
prVars == <<pruned_owners, owners_before, pr_todo, pr_path, pr_a, pr_calls, owners_once>>
sgVars == <<sigs, committees, sg_i, repos, report, sql>>
rpVars == <<sigs_yaml, owners_yaml, all_subprojects, owners_to_subprojects,
           owners_trie, emitted>>
cnVars == <<script, groups, remote, workdir, paths, log, cn_sig, cn_sp, cn_uri, written, cause>>
cvVars == <<cv_from, cv_trace>>
ldVars == <<repo_files, owners_file, all_aliases, file_paths, owners_paths, runs,
           at_start, parsed, parsed_from, expansions, owners_keys>>
vars == <<pc, all_owners, exVars, prVars, sgVars, rpVars, cnVars, cvVars, ldVars>>

\* What a script or function leaves alone: the state of the others.
notEx == <<all_owners, prVars, sgVars, rpVars, cnVars, cvVars, ldVars>>
notPr == <<exVars, sgVars, rpVars, cnVars, cvVars, ldVars>>
notSg == <<all_owners, exVars, prVars, rpVars, cnVars, cvVars, ldVars>>
notRp == <<exVars, prVars, sgVars, cnVars, cvVars, ldVars>>
notCn == <<all_owners, exVars, prVars, sgVars, rpVars, cvVars, ldVars>>
notCv == <<all_owners, exVars, prVars, sgVars, rpVars, cnVars, ldVars>>
notLd == <<exVars, prVars, sgVars, rpVars, cnVars, cvVars>>

----------------------------------------------------------------------------
(* Generic helpers for Python lists, sets and dicts.                       *)

\* Python's None.
None == "<None>"

Range(s) == {s[i] : i \in 1..Len(s)}

SeqsUpTo(S, n) == UNION {[1..k -> S] : k \in 0..n}

\* Every list that holds each element of S exactly once: list(S) for a set S.
ListsOf(S) == {l \in [1..Cardinality(S) -> S] : Range(l) = S}

NoDuplicates(l) == \A i, j \in 1..Len(l) : l[i] = l[j] => i = j

EmptyDict == [k \in {} |-> None]

----------------------------------------------------------------------------
(* Python strings.  A string is a sequence of tokens.  The tokens are      *)
(* prefix-free (none begins another), so comparing two strings token by    *)
(* token in the order of TokenRank is comparing them character by          *)
(* character, and searching a token sequence is searching the characters.  *)

Slash == "/"

\* The tokens in the order of their first characters ("/" < "A" < "O" < "_" < "a" ...).
TokenOrder ==
    <<"/", "ALIASES", "OWNERS", "_", "a", "b", "https:", "k8s.io", "kubernetes", "master",
      "raw.githubusercontent.com", "repos", "src", "staging", "vendor">>
TokenRank(t) == CHOOSE i \in 1..Len(TokenOrder) : TokenOrder[i] = t

\* s < t for two Python strings.
RECURSIVE StrLess(_, _)
StrLess(s, t) ==
    IF t = <<>> THEN FALSE
    ELSE IF s = <<>> THEN TRUE
    ELSE IF Head(s) = Head(t) THEN StrLess(Tail(s), Tail(t))
    ELSE TokenRank(Head(s)) < TokenRank(Head(t))

\* s.split(sep) for a one-token separator: never empty, ''.split('/') = [''].
RECURSIVE SplitFrom(_, _, _)
SplitFrom(s, sep, cur) ==
    IF s = <<>> THEN <<cur>>
    ELSE IF Head(s) = sep THEN <<cur>> \o SplitFrom(Tail(s), sep, <<>>)
    ELSE SplitFrom(Tail(s), sep, Append(cur, Head(s)))
Split(s, sep) == SplitFrom(s, sep, <<>>)

\* sep.join(parts)
RECURSIVE Join(_, _)
Join(parts, sep) ==
    IF parts = <<>> THEN <<>>
    ELSE IF Len(parts) = 1 THEN parts[1]
    ELSE parts[1] \o <<sep>> \o Join(Tail(parts), sep)

\* l[lo:hi] with Python's 0-based, end-exclusive, clipped indices.
Slice(l, lo, hi) ==
    LET n == IF hi < Len(l) THEN hi ELSE Len(l)
    IN  IF lo >= n THEN <<>> ELSE [i \in 1..(n - lo) |-> l[lo + i]]

\* sorted(S) for a set of strings.
RECURSIVE SortedStrings(_)
SortedStrings(S) ==
    IF S = {} THEN <<>>
    ELSE LET least == CHOOSE x \in S : \A y \in S \ {x} : StrLess(x, y)
         IN  <<least>> \o SortedStrings(S \ {least})

----------------------------------------------------------------------------
(* Each specification below runs one script or function; the state of the  *)
(* others stays as it is here.                                             *)

RpIdle ==
    /\ sigs_yaml = <<>> /\ owners_yaml = EmptyDict
    /\ all_subprojects = <<>> /\ owners_to_subprojects = EmptyDict
    /\ owners_trie = EmptyDict /\ emitted = <<>>

SgIdle ==
    /\ sigs = <<>> /\ committees = <<>> /\ sg_i = 0
    /\ repos = EmptyDict /\ report = <<>> /\ sql = <<>>

PrIdle ==
    /\ pruned_owners = EmptyDict /\ owners_before = EmptyDict
    /\ pr_todo = {} /\ pr_path = <<>> /\ pr_a = 0
    /\ pr_calls = 0 /\ owners_once = EmptyDict

ExIdle ==
    /\ fn = "" /\ entries = <<>> /\ aliases = EmptyDict
    /\ idx = 0 /\ expanded = {} /\ result = <<>>

CnIdle ==
    /\ script = "" /\ groups = <<>> /\ remote = EmptyDict /\ workdir = EmptyDict
    /\ paths = <<>> /\ log = <<>> /\ cn_sig = 0 /\ cn_sp = 0 /\ cn_uri = 0
    /\ written = <<>> /\ cause = ""

CvIdle == cv_from = "" /\ cv_trace = <<>>

LdIdle ==
    /\ repo_files = EmptyDict /\ owners_file = EmptyDict /\ all_aliases = EmptyDict
    /\ file_paths = <<>> /\ owners_paths = <<>> /\ runs = 0 /\ at_start = EmptyDict
    /\ parsed = {} /\ parsed_from = EmptyDict /\ expansions = EmptyDict
    /\ owners_keys = <<>>

----------------------------------------------------------------------------
(* Alias expansion: expand_aliases (generate-owners-report.py) and         *)
(* expand_owners_aliases (guess-subproject-owners.py).                      *)

MaxEntries == 3

Ids == {"x", "y"}
AliasNames == {"team-a", "team-b"}

\* The value of an alias in OWNERS_ALIASES: a list of identifiers, or null.
NullValue == [tag |-> "null", items |-> <<>>]
ListValue(l) == [tag |-> "list", items |-> l]
MemberLists == {<<>>, <<"x">>, <<"y">>, <<"x", "y">>, <<"y", "x">>, <<"x", "x">>}
AliasValues == {NullValue} \cup {ListValue(l) : l \in MemberLists}
AliasTables == UNION {[K -> AliasValues] : K \in SUBSET AliasNames}

EntryValues == Ids \cup AliasNames \cup {None}
EntryLists == SeqsUpTo(EntryValues, MaxEntries)

\* `ax = aliases[x]; if ax is None: ax = []`
AliasMembers(als, x) == IF als[x].tag = "null" THEN {} ELSE Range(als[x].items)

\* Mutant of ExpandEntry: a None entry is added like any other entry.
ExpandEntryKeepsNone(exp, x, als) ==
    IF x \in DOMAIN als THEN exp \cup AliasMembers(als, x) ELSE exp \cup {x}

\* One iteration of `for x in entries`.
ExpandEntry(exp, x, als) ==
    IF x \in DOMAIN als
    THEN exp \cup AliasMembers(als, x)
    ELSE IF x # None THEN exp \cup {x} ELSE exp

RECURSIVE ExpandLoop(_, _, _, _)
ExpandLoop(exp, es, als, i) ==
    IF i > Len(es) THEN exp
    ELSE ExpandLoop(ExpandEntry(exp, es[i], als), es, als, i + 1)

\* The set `expanded` at the return of expand_aliases / expand_owners_aliases;
\* the function returns list(expanded).
expand_aliases(es, als) == ExpandLoop({}, es, als, 1)

ExInit ==
    /\ pc = "expand"
    /\ fn \in {"expand_aliases", "expand_owners_aliases"}
    /\ entries \in EntryLists
    /\ aliases \in AliasTables
    /\ idx = 1
    /\ expanded = {}
    /\ result = <<>>
    /\ all_owners = EmptyDict
    /\ PrIdle /\ SgIdle /\ RpIdle /\ CnIdle /\ CvIdle /\ LdIdle

\* `if x in aliases: ... expanded.update(ax)`
ExpandAliasKey ==
    /\ pc = "expand"
    /\ idx <= Len(entries)
    /\ entries[idx] \in DOMAIN aliases
    /\ expanded' = ExpandEntry(expanded, entries[idx], aliases)
    /\ idx' = idx + 1
    /\ UNCHANGED <<pc, fn, entries, aliases, result, notEx>>

\* `else: if x is not None: expanded.add(x)`
ExpandPlainEntry ==
    /\ pc = "expand"
    /\ idx <= Len(entries)
    /\ entries[idx] \notin DOMAIN aliases
    /\ expanded' = ExpandEntry(expanded, entries[idx], aliases)
    /\ idx' = idx + 1
    /\ UNCHANGED <<pc, fn, entries, aliases, result, notEx>>

\* `return list(expanded)`
ExpandReturn ==
    /\ pc = "expand"
    /\ idx > Len(entries)
    /\ result' \in ListsOf(expanded)
    /\ pc' = "returned"
    /\ UNCHANGED <<fn, entries, aliases, idx, expanded, notEx>>

ExNext == ExpandAliasKey \/ ExpandPlainEntry \/ ExpandReturn

SpecExpand == ExInit /\ [][ExNext]_vars

\* C5: when expand_aliases / expand_owners_aliases returns, the returned list
\* has no duplicates and holds exactly the members of the entries that are
\* alias keys (a null member list counting as empty) and the non-None entries
\* that are not alias keys; None entries and every other identifier are absent.
C5_ExpandExact ==
    pc = "returned" =>
        /\ NoDuplicates(result)
        /\ Range(result) =
              UNION {IF aliases[x].tag = "null" THEN {} ELSE Range(aliases[x].items) :
                     x \in Range(entries) \cap DOMAIN aliases}
              \cup {x \in Range(entries) : x \notin DOMAIN aliases /\ x # None}

C5_Witness ==
    /\ pc = "returned"
    /\ None \in Range(entries)
    /\ \E x \in Range(entries) \cap DOMAIN aliases : Len(aliases[x].items) = 2
    /\ \E x \in Range(entries) : x \in Ids
    /\ Len(result) >= 2

----------------------------------------------------------------------------
(* Duplicate-role pruning: prune_dupe_reviewers (generate-owners-report.py). *)

MaxRoleLen == 2

\* Paths of OWNERS files, as token sequences.
PathRootOwners == <<"kubernetes", "/", "a", "/", "OWNERS">>
PathApiOwners == <<"kubernetes", "/", "a", "/", "b", "/", "OWNERS">>
PrunePaths == {PathRootOwners, PathApiOwners}

RoleLists == SeqsUpTo(Ids, MaxRoleLen)
PruneRecords == [approvers : RoleLists, reviewers : RoleLists]
PruneTables == UNION {[K -> PruneRecords] : K \in SUBSET PrunePaths}

\* list.remove(a): the list without the first occurrence of a.
RECURSIVE RemoveFirst(_, _)
RemoveFirst(l, a) ==
    IF l = <<>> THEN <<>>
    ELSE IF Head(l) = a THEN Tail(l)
    ELSE <<Head(l)>> \o RemoveFirst(Tail(l), a)

\* `if a in owners['reviewers']: owners['reviewers'].remove(a)`
PruneApprover(reviewers, a) ==
    IF a \in Range(reviewers) THEN RemoveFirst(reviewers, a) ELSE reviewers

RECURSIVE PruneLoop(_, _, _)
PruneLoop(reviewers, approvers, i) ==
    IF i > Len(approvers) THEN reviewers
    ELSE PruneLoop(PruneApprover(reviewers, approvers[i]), approvers, i + 1)

\* The body of the outer loop: one record after `for a in owners['approvers']`.
PruneRecord(owners) ==
    [owners EXCEPT !.reviewers = PruneLoop(owners.reviewers, owners.approvers, 1)]

\* pruned_owners['owners'] at the return of prune_dupe_reviewers.
prune_dupe_reviewers(table) == [p \in DOMAIN table |-> PruneRecord(table[p])]

PrInit ==
    /\ pc = "prune"
    /\ all_owners \in PruneTables
    /\ pruned_owners = all_owners
    /\ owners_before = all_owners
    /\ pr_todo = DOMAIN all_owners
    /\ pr_path = <<>>
    /\ pr_a = 0
    /\ pr_calls = 0
    /\ owners_once = EmptyDict
    /\ ExIdle /\ SgIdle /\ RpIdle /\ CnIdle /\ CvIdle /\ LdIdle

\* `for path, owners in pruned_owners['owners'].items():` takes the next record.
PruneNextRecord ==
    /\ pc = "prune"
    /\ pr_path = <<>>
    /\ \E p \in pr_todo :
        /\ pr_path' = p
        /\ pr_todo' = pr_todo \ {p}
    /\ pr_a' = 1
    /\ UNCHANGED <<pc, all_owners, pruned_owners, owners_before, pr_calls, owners_once, notPr>>

\* One iteration of `for a in owners['approvers']`.  The copy is shallow:
\* the records of the argument and of the returned table are the same objects.
PruneStep ==
    /\ pc = "prune"
    /\ pr_path # <<>>
    /\ pr_a <= Len(pruned_owners[pr_path].approvers)
    /\ LET owners == pruned_owners[pr_path]
           pruned == [owners EXCEPT !.reviewers =
                          PruneApprover(owners.reviewers, owners.approvers[pr_a])]
       IN  /\ pruned_owners' = [pruned_owners EXCEPT ![pr_path] = pruned]
           /\ all_owners' = [all_owners EXCEPT ![pr_path] = pruned]
    /\ pr_a' = pr_a + 1
    /\ UNCHANGED <<pc, owners_before, pr_todo, pr_path, pr_calls, owners_once, notPr>>

\* The inner loop is exhausted.
PruneRecordDone ==
    /\ pc = "prune"
    /\ pr_path # <<>>
    /\ pr_a > Len(pruned_owners[pr_path].approvers)
    /\ pr_path' = <<>>
    /\ pr_a' = 0
    /\ UNCHANGED <<pc, all_owners, pruned_owners, owners_before, pr_todo, pr_calls,
                   owners_once, notPr>>

\* `return pruned_owners`
PruneReturn ==
    /\ pc = "prune"
    /\ pr_path = <<>>
    /\ pr_todo = {}
    /\ pc' = "pruned"
    /\ pr_calls' = pr_calls + 1
    /\ owners_once' = IF pr_calls = 0 THEN pruned_owners ELSE owners_once
    /\ UNCHANGED <<all_owners, pruned_owners, owners_before, pr_todo, pr_path, pr_a, notPr>>

\* prune_dupe_reviewers is called again, with the table the first call
\* returned: what the next run of main does with the owners.yaml of this one.
PruneAgain ==
    /\ pc = "pruned"
    /\ pr_calls = 1
    /\ pc' = "prune"
    /\ owners_before' = pruned_owners
    /\ pr_todo' = DOMAIN pruned_owners
    /\ UNCHANGED <<all_owners, pruned_owners, pr_path, pr_a, pr_calls, owners_once, notPr>>

PrNext == PruneNextRecord \/ PruneStep \/ PruneRecordDone \/ PruneReturn \/ PruneAgain

SpecPrune == PrInit /\ [][PrNext]_vars

\* C4 (as claimed): after prune_dupe_reviewers returns, no identifier is in
\* both the approvers and the reviewers of a record, and the reviewers left
\* are exactly the original reviewers that are not approvers.
C4_PrunedDisjoint ==
    pc = "pruned" =>
        \A p \in DOMAIN pruned_owners :
            /\ Range(pruned_owners[p].approvers) \cap Range(pruned_owners[p].reviewers) = {}
            /\ Range(pruned_owners[p].reviewers) =
                   Range(owners_before[p].reviewers) \ Range(owners_before[p].approvers)

\* C16 (as claimed): prune_dupe_reviewers is idempotent: for every table, the
\* approvers and reviewers of every record after a second application are
\* those after the first.
C16_PruneIdempotent ==
    (pc = "pruned" /\ pr_calls = 2) =>
        \A p \in DOMAIN pruned_owners :
            /\ pruned_owners[p].approvers = owners_once[p].approvers
            /\ pruned_owners[p].reviewers = owners_once[p].reviewers

----------------------------------------------------------------------------
(* do_things_with_sigs_yaml.py: the repositories of each sig and the       *)
(* repositories owned by more than one sig.                                *)

MaxSigs == 3

\* https://raw.githubusercontent.com/<org>/<repo>/master/<path>
RawPrefix == <<"https:", "/", "/", "raw.githubusercontent.com", "/">>
RawUri(org, repo, path) == RawPrefix \o <<org, "/", repo, "/", "master", "/">> \o path

UriA == RawUri("kubernetes", "a", <<"OWNERS">>)
UriAB == RawUri("kubernetes", "a", <<"b", "/", "OWNERS">>)
UriB == RawUri("kubernetes", "b", <<"OWNERS">>)
UriK == RawUri("kubernetes", "kubernetes", <<"OWNERS">>)
\* An owners entry that is no raw URI: too few segments for an org/repo.
UriShort == <<"a", "/", "OWNERS">>

SigOwnersLists ==
    {<<>>, <<UriA>>, <<UriB>>, <<UriK>>, <<UriA, UriB>>, <<UriB, UriAB>>, <<UriA, UriAB>>,
     <<UriK, UriA>>, <<UriK, UriA, UriB>>, <<UriShort>>}

\* sig.get('subprojects', []): the key absent, null, or a list of subprojects.
SigSubprojects ==
    {[tag |-> "missing", items |-> <<>>], [tag |-> "null", items |-> <<>>]}
    \cup {[tag |-> "list", items |-> <<[owners |-> l]>>] : l \in SigOwnersLists}
    \cup {[tag |-> "list", items |-> <<[owners |-> <<UriA>>], [owners |-> <<UriB>>]>>],
          [tag |-> "list", items |-> <<[owners |-> <<UriAB>>], [owners |-> <<UriA, UriB>>]>>]}

SigNames == <<"Foo", "Bar", "Baz", "Qux">>

SigLists ==
    UNION {{l \in [1..n -> [name : Range(SigNames), subprojects : SigSubprojects]] :
                \A i \in 1..n : l[i].name = SigNames[i]} : n \in 0..MaxSigs}

\* sigs['committees']: none, or the steering committee with a subproject in
\* a repository of its own.
CommitteeLists ==
    {<<>>,
     <<[name |-> "Steering",
        subprojects |-> [tag |-> "list", items |-> <<[owners |-> <<UriB>>]>>]]>>}

\* `repo = '/'.join(uri.split('/')[3:5])`
RepoOfUri(uri) == Join(Slice(Split(uri, Slash), 3, 5), Slash)

\* repos_from_sig: the sorted org/repos of the owners URIs of a sig.
repos_from_sig(sig) ==
    LET subprojects == IF sig.subprojects.tag = "list" THEN sig.subprojects.items ELSE <<>>
        uris == UNION {Range(subprojects[i].owners) : i \in 1..Len(subprojects)}
    IN  SortedStrings({RepoOfUri(u) : u \in uris} \ {<<>>})

\* `owning_sigs = repos.get(repo, []); owning_sigs.append(name); repos[repo] = owning_sigs`
\* for every repo of sig_repos.
AddOwningSig(rs, sig_repos, name) ==
    [r \in DOMAIN rs \cup Range(sig_repos) |->
        IF r \in Range(sig_repos)
        THEN (IF r \in DOMAIN rs THEN rs[r] ELSE <<>>) \o <<name>>
        ELSE rs[r]]

\* Insertion of x into a list sorted by descending key, after every element
\* whose key is not smaller: sorted(..., reverse=True) is stable.
RECURSIVE InsertDesc(_, _, _)
InsertDesc(l, x, rs) ==
    IF l = <<>> THEN <<x>>
    ELSE IF Len(rs[Head(l)]) >= Len(rs[x]) THEN <<Head(l)>> \o InsertDesc(Tail(l), x, rs)
    ELSE <<x>> \o l

\* Mutant of SortedByOwnersDesc: the items are not sorted at all.
UnsortedItems(items, rs) == items

\* `sorted(repos.items(), key=lambda (k,v): len(v), reverse=True)` (the keys).
RECURSIVE SortedByOwnersDesc(_, _)
SortedByOwnersDesc(items, rs) ==
    IF items = <<>> THEN <<>>
    ELSE InsertDesc(SortedByOwnersDesc(SubSeq(items, 1, Len(items) - 1), rs),
                    items[Len(items)], rs)

\* `if len(owning_sigs) > 1: print ...`: the lines, one per repo with several owners.
RECURSIVE MultiOwnerLines(_, _)
MultiOwnerLines(items, rs) ==
    IF items = <<>> THEN <<>>
    ELSE (IF Len(rs[Head(items)]) > 1
          THEN <<[repo |-> Head(items), count |-> Len(rs[Head(items)]),
                  owners |-> rs[Head(items)]]>>
          ELSE <<>>) \o MultiOwnerLines(Tail(items), rs)

SgInit ==
    /\ pc = "multi"
    /\ sigs \in SigLists
    /\ committees \in CommitteeLists
    /\ sg_i = 1
    /\ repos = EmptyDict
    /\ report = <<>>
    /\ sql = <<>>
    /\ all_owners = EmptyDict
    /\ ExIdle /\ PrIdle /\ RpIdle /\ CnIdle /\ CvIdle /\ LdIdle

\* One iteration of `for sig in sigs['sigs']` of print_repos_owned_by_multiple_sigs.
MultiScanSig ==
    /\ pc = "multi"
    /\ sg_i <= Len(sigs)
    /\ repos' = AddOwningSig(repos, repos_from_sig(sigs[sg_i]), sigs[sg_i].name)
    /\ sg_i' = sg_i + 1
    /\ UNCHANGED <<pc, sigs, committees, report, sql, notSg>>

\* The printing loop.  repos.items() of a Python 2 dict comes in an order the
\* language leaves open; the sort is stable on it.
MultiReport ==
    /\ pc = "multi"
    /\ sg_i > Len(sigs)
    /\ \E items \in ListsOf(DOMAIN repos) :
          report' = MultiOwnerLines(SortedByOwnersDesc(items, repos), repos)
    /\ pc' = "multi_done"
    /\ UNCHANGED <<sigs, committees, sg_i, repos, sql, notSg>>

SgNext == MultiScanSig \/ MultiReport

SpecSigs == SgInit /\ [][SgNext]_vars

\* The sigs one of whose subprojects lists an owners URI of repository r.
OwningSigs(r) ==
    {i \in 1..Len(sigs) :
        /\ sigs[i].subprojects.tag = "list"
        /\ \E k \in 1..Len(sigs[i].subprojects.items) :
               \E u \in Range(sigs[i].subprojects.items[k].owners) : RepoOfUri(u) = r}
SharedRepos ==
    {r \in {<<"kubernetes", "/", "a">>, <<"kubernetes", "/", "b">>,
            <<"kubernetes", "/", "kubernetes">>} : Cardinality(OwningSigs(r)) > 1}
ReportedExactly ==
    /\ \A i, j \in 1..Len(report) : report[i].repo = report[j].repo => i = j
    /\ {report[i].repo : i \in 1..Len(report)} = SharedRepos
    /\ \A i \in 1..Len(report) :
           /\ report[i].count = Cardinality(OwningSigs(report[i].repo))
           /\ Len(report[i].owners) = report[i].count
           /\ Range(report[i].owners) = {sigs[k].name : k \in OwningSigs(report[i].repo)}

----------------------------------------------------------------------------
(* generate-owners-report.py: main, from the loading of the owners table   *)
(* to the dump of the resolved dataset.  sigs_yaml is the document as it   *)
(* is read; the changes main makes to the loaded objects are held in       *)
(* all_subprojects (the same subproject objects) and show in `emitted`.    *)

MaxSubprojects == 2
MaxRecords == 2

SlashOwners == <<"/", "OWNERS">>
SlashMasterSlash == <<"/", "master", "/">>

SetMax(S) == CHOOSE x \in S : \A y \in S : y <= x
SetMin(S) == CHOOSE x \in S : \A y \in S : x <= y

\* The places where pat occurs in s.
OccursAt(s, pat, i) ==
    i + Len(pat) - 1 <= Len(s) /\ SubSeq(s, i, i + Len(pat) - 1) = pat
Occurrences(s, pat) == {i \in 1..Len(s) : OccursAt(s, pat, i)}

\* s.replace(pat, rep): every occurrence, left to right.
RECURSIVE Replace(_, _, _)
Replace(s, pat, rep) ==
    IF s = <<>> THEN <<>>
    ELSE IF OccursAt(s, pat, 1)
         THEN rep \o Replace(SubSeq(s, Len(pat) + 1, Len(s)), pat, rep)
         ELSE <<Head(s)>> \o Replace(Tail(s), pat, rep)

\* Mutant of monorepo_path_from_raw_gh_uri: the URI is kept as it is.
UriKept(uri) == uri

\* re.sub(r"https://raw.githubusercontent.com/(.*)/master/(.*)", r"\1/\2", uri):
\* the leftmost place of the prefix that a "/master/" follows, the first
\* group greedy up to the last "/master/", the second to the end.
monorepo_path_from_raw_gh_uri(uri) ==
    LET masters(i) == {j \in Occurrences(uri, SlashMasterSlash) : j >= i + Len(RawPrefix)}
        starts == {i \in Occurrences(uri, RawPrefix) : masters(i) # {}}
    IN  IF starts = {} THEN uri
        ELSE LET i == SetMin(starts)
                 j == SetMax(masters(i))
             IN  SubSeq(uri, 1, i - 1) \o SubSeq(uri, i + Len(RawPrefix), j - 1)
                     \o <<Slash>> \o SubSeq(uri, j + 3, Len(uri))

\* `owners_path.replace("/OWNERS","")`, split at the trie's separator.
TrieKey(owners_path) == Split(Replace(owners_path, SlashOwners, <<>>), Slash)

\* StringTrie.longest_prefix(key): the deepest node with a value on the path
\* of the key's segments; (None, None) when there is none.
longest_prefix(trie, key) ==
    LET segs == Split(key, Slash)
        hits == {n \in 1..Len(segs) : SubSeq(segs, 1, n) \in DOMAIN trie}
    IN  IF hits = {} THEN [found |-> FALSE, key |-> <<"None">>, value |-> None]
        ELSE LET k == SubSeq(segs, 1, SetMax(hits))
             IN  [found |-> TRUE, key |-> Join(k, Slash), value |-> trie[k]]

\* OWNERS files of the repositories (keys of all_owners['owners']).
PathAbaOwners == <<"kubernetes", "/", "a", "/", "b", "/", "a", "/", "OWNERS">>
PathAbaSegOwners == <<"kubernetes", "/", "a", "/", "b", "a", "/", "OWNERS">>
PathBOwners == <<"kubernetes", "/", "b", "/", "OWNERS">>
\* A file OWNERS_b, which `find -name "OWNERS*"` takes for an OWNERS file.
PathOwnersSuffixed == <<"kubernetes", "/", "a", "/", "OWNERS", "_", "b">>
\* An OWNERS file below a directory that is itself called OWNERS.
PathOwnersDir == <<"kubernetes", "/", "a", "/", "OWNERS", "/", "b", "/", "OWNERS">>
RecordPaths ==
    {PathRootOwners, PathApiOwners, PathAbaOwners, PathAbaSegOwners, PathBOwners,
     PathOwnersSuffixed, PathOwnersDir}

\* A record of owners.yaml as a finished run left it.
OwnersRecord == [approvers |-> <<"x">>, reviewers |-> <<"y", "x">>, expanded |-> TRUE]
OwnersTables ==
    UNION {[K -> {OwnersRecord}] : K \in {S \in SUBSET RecordPaths : Cardinality(S) <= MaxRecords}}

\* The subprojects of the dataset: a name and the declared owners, raw URIs
\* or, in a dataset this script wrote, monorepo paths.
SubprojectNames == {"core", "api", "unknown"}
DeclaredLists == {<<>>, <<UriA>>, <<UriAB>>, <<UriA, UriAB>>, <<PathRootOwners>>}
DeclaredSubprojects == [name : SubprojectNames, owners : DeclaredLists]

ListOfSubprojects(sps) == [tag |-> "list", items |-> sps]
NoSubprojects == {[tag |-> "missing", items |-> <<>>], [tag |-> "null", items |-> <<>>]}

SigFoo(subprojects) == [dir |-> "sig-foo", subprojects |-> subprojects]
Steering(subprojects) == [dir |-> "committee-steering", subprojects |-> subprojects]
SteeringOwn == [name |-> "steering", owners |-> <<UriB>>]

Datasets ==
    [sigs : {<<SigFoo(sp)>> :
                sp \in NoSubprojects \cup
                       {ListOfSubprojects(l) : l \in SeqsUpTo(DeclaredSubprojects, MaxSubprojects)}},
     committees : {<<>>} \cup
                  {<<Steering(sp)>> :
                      sp \in NoSubprojects \cup
                             {ListOfSubprojects(<<>>), ListOfSubprojects(<<SteeringOwn>>)}}]

\* The groups of the dataset that may own code, sigs before committees.
GroupsOf(sy) == sy.sigs \o sy.committees

\* subprojects_from_k8s_group: the subprojects with parent and full_name
\* added and the owners URIs converted to monorepo paths.
subprojects_from_k8s_group(g) ==
    LET subprojects == IF g.subprojects.tag = "list" THEN g.subprojects.items ELSE <<>>
    IN  [i \in 1..Len(subprojects) |->
            [name |-> subprojects[i].name,
             parent |-> g.dir,
             full_name |-> <<g.dir, Slash, subprojects[i].name>>,
             owners |-> [k \in 1..Len(subprojects[i].owners) |->
                            monorepo_path_from_raw_gh_uri(subprojects[i].owners[k])],
             reasons |-> EmptyDict]]

\* d[name] for a dict kept as the list of its values in dict order.
HasName(d, name) == \E i \in 1..Len(d) : d[i].name = name
ByName(d, name) == d[CHOOSE i \in 1..Len(d) : d[i].name = name]

\* `all_subprojects[sp['name']] = sp`: a new key goes last, a known key
\* keeps its place and takes the new value.
DictPut(d, sp) ==
    IF HasName(d, sp.name)
    THEN [i \in 1..Len(d) |-> IF d[i].name = sp.name THEN sp ELSE d[i]]
    ELSE Append(d, sp)

RECURSIVE DictPutAll(_, _)
DictPutAll(d, sps) ==
    IF sps = <<>> THEN d ELSE DictPutAll(DictPut(d, Head(sps)), Tail(sps))

RECURSIVE SubprojectsOfGroups(_, _)
SubprojectsOfGroups(d, gs) ==
    IF gs = <<>> THEN d
    ELSE SubprojectsOfGroups(DictPutAll(d, subprojects_from_k8s_group(Head(gs))),
                             Tail(gs))

UnknownSubproject ==
    [name |-> "unknown", parent |-> "committee-steering",
     full_name |-> <<"committee-steering", Slash, "unknown">>,
     owners |-> <<>>, reasons |-> EmptyDict]

\* all_subprojects at the return of load_all_groups_and_subprojects.
load_all_subprojects(sy) ==
    DictPut(SubprojectsOfGroups(<<>>, GroupsOf(sy)), UnknownSubproject)

\* `all_groups['committee-steering']['subprojects'].append(...)` succeeds: the
\* group is in the dataset and its subprojects key holds a list.
CanAppendUnknown(sy) ==
    \E i \in 1..Len(GroupsOf(sy)) :
        /\ GroupsOf(sy)[i].dir = "committee-steering"
        /\ GroupsOf(sy)[i].subprojects.tag = "list"

NoReason == [path_prefix |-> <<>>, full_name |-> <<>>]

\* First pass: the declared owners of every subprojects, in dict order.
RECURSIVE DeclaredGuesses(_, _)
DeclaredGuesses(o2s, sps) ==
    IF sps = <<>> THEN o2s
    ELSE LET sp == Head(sps)
             declared == Range(sp.owners)
         IN  DeclaredGuesses(
                 [p \in DOMAIN o2s \cup declared |->
                     IF p \in declared
                     THEN [name |-> sp.name, has_reason |-> FALSE, reason |-> NoReason]
                     ELSE o2s[p]],
                 Tail(sps))

RECURSIVE DeclaredTrie(_, _)
DeclaredTrie(trie, sps) ==
    IF sps = <<>> THEN trie
    ELSE LET sp == Head(sps)
             keys == {TrieKey(p) : p \in Range(sp.owners)}
         IN  DeclaredTrie([k \in DOMAIN trie \cup keys |->
                              IF k \in keys THEN sp.name ELSE trie[k]],
                          Tail(sps))

\* Second pass, one record: the guess by longest prefix.
PrefixGuess(trie, sps, owners_path) ==
    LET lp == longest_prefix(trie, Replace(owners_path, SlashOwners, <<>>))
        subproject == IF lp.found THEN lp.value ELSE "unknown"
    IN  [name |-> subproject, has_reason |-> TRUE,
         reason |-> [path_prefix |-> lp.key, full_name |-> ByName(sps, subproject).full_name]]

\* Mutant of PopulatedSubproject: a guessed path is listed under every subproject.
PopulatedWithAllGuesses(sp, o2s) ==
    LET mine == {p \in DOMAIN o2s : o2s[p].name = sp.name \/ o2s[p].has_reason}
    IN  [sp EXCEPT !.owners = SortedStrings(mine),
                   !.reasons = [p \in {q \in mine : o2s[q].has_reason} |-> o2s[p].reason]]

\* Lines 331-348 for one subproject: its owners are the paths guessed for its
\* name, sorted; the paths with a reason carry it as a comment.
PopulatedSubproject(sp, o2s) ==
    LET mine == {p \in DOMAIN o2s : o2s[p].name = sp.name}
    IN  [sp EXCEPT !.owners = SortedStrings(mine),
                   !.reasons = [p \in {q \in mine : o2s[q].has_reason} |-> o2s[p].reason]]

\* Lines 336-338: `guess.pop('name')` and `guess['path'] = owners_path` change
\* the guess of owners_to_subprojects itself.
GuessWithPath(guess, owners_path) ==
    [path |-> owners_path, has_reason |-> guess.has_reason, reason |-> guess.reason]

\* Lines 353-354: `sp.pop('parent')` and `sp.pop('full_name')` change the
\* subproject all_subprojects holds.
WithoutParent(sp) == [name |-> sp.name, owners |-> sp.owners, reasons |-> sp.reasons]

\* Lines 350-355 for one group: the subprojects of the loaded group object
\* (the dataset's, and `unknown` appended to committee-steering), each with
\* the owners list of the subproject of its name.
EmittedGroup(g, sps) ==
    LET own == IF g.subprojects.tag = "list" THEN g.subprojects.items ELSE <<>>
        listed == IF g.dir = "committee-steering" /\ g.subprojects.tag = "list"
                  THEN Append(own, UnknownSubproject) ELSE own
    IN  [dir |-> g.dir,
         subprojects |-> [i \in 1..Len(listed) |->
                             [name |-> listed[i].name,
                              owners |-> ByName(sps, listed[i].name).owners,
                              reasons |-> ByName(sps, listed[i].name).reasons]]]

RpInit ==
    /\ pc = "main"
    /\ sigs_yaml \in Datasets
    /\ owners_yaml \in OwnersTables
    /\ all_owners = EmptyDict
    /\ all_subprojects = <<>>
    /\ owners_to_subprojects = EmptyDict
    /\ owners_trie = EmptyDict
    /\ emitted = <<>>
    /\ ExIdle /\ PrIdle /\ SgIdle /\ CnIdle /\ CvIdle /\ LdIdle

\* Lines 288-293 without --refresh-owners-yaml: the owners table is the one
\* of owners.yaml, pruned and written back.
MainLoadOwners ==
    /\ pc = "main"
    /\ all_owners' = prune_dupe_reviewers(owners_yaml)
    /\ owners_yaml' = all_owners'
    /\ pc' = "load_groups"
    /\ UNCHANGED <<sigs_yaml, all_subprojects, owners_to_subprojects, owners_trie,
                   emitted, notRp>>

\* Line 298, load_all_groups_and_subprojects.
LoadAllGroupsAndSubprojects ==
    /\ pc = "load_groups"
    /\ CanAppendUnknown(sigs_yaml)
    /\ all_subprojects' = load_all_subprojects(sigs_yaml)
    /\ pc' = "first_pass"
    /\ UNCHANGED <<sigs_yaml, owners_yaml, all_owners, owners_to_subprojects, owners_trie,
                   emitted, notRp>>

\* Line 255 raises KeyError (no committee-steering, or no subprojects key) or
\* AttributeError (subprojects is null): main ends there.
LoadAllGroupsFails ==
    /\ pc = "load_groups"
    /\ ~CanAppendUnknown(sigs_yaml)
    /\ pc' = "aborted"
    /\ UNCHANGED <<all_owners, rpVars, notRp>>

\* Lines 303-307.
FirstPass ==
    /\ pc = "first_pass"
    /\ owners_to_subprojects' = DeclaredGuesses(EmptyDict, all_subprojects)
    /\ owners_trie' = DeclaredTrie(EmptyDict, all_subprojects)
    /\ pc' = "second_pass"
    /\ UNCHANGED <<sigs_yaml, owners_yaml, all_owners, all_subprojects, emitted, notRp>>

\* Lines 322-328.
SecondPass ==
    /\ pc = "second_pass"
    /\ owners_to_subprojects' =
           [p \in DOMAIN owners_to_subprojects \cup DOMAIN all_owners |->
               IF p \in DOMAIN owners_to_subprojects THEN owners_to_subprojects[p]
               ELSE PrefixGuess(owners_trie, all_subprojects, p)]
    /\ pc' = "populate"
    /\ UNCHANGED <<sigs_yaml, owners_yaml, all_owners, all_subprojects, owners_trie,
                   emitted, notRp>>

\* Lines 331-348: the subprojects take the paths guessed for them, and every
\* guess loses its name and takes its path.
Populate ==
    /\ pc = "populate"
    /\ all_subprojects' = [i \in 1..Len(all_subprojects) |->
                              PopulatedSubproject(all_subprojects[i], owners_to_subprojects)]
    /\ owners_to_subprojects' =
           [p \in DOMAIN owners_to_subprojects |-> GuessWithPath(owners_to_subprojects[p], p)]
    /\ pc' = "emit"
    /\ UNCHANGED <<sigs_yaml, owners_yaml, all_owners, owners_trie, emitted, notRp>>

\* Lines 350-359: `for sp in g.get('subprojects',[])` raises TypeError for a
\* group whose subprojects key is null; otherwise the subprojects lose parent
\* and full_name, among them every subproject of all_subprojects, and the
\* dataset is dumped.
Emit ==
    /\ pc = "emit"
    /\ \A i \in 1..Len(GroupsOf(sigs_yaml)) : GroupsOf(sigs_yaml)[i].subprojects.tag # "null"
    /\ emitted' = [i \in 1..Len(GroupsOf(sigs_yaml)) |->
                      EmittedGroup(GroupsOf(sigs_yaml)[i], all_subprojects)]
    /\ all_subprojects' = [i \in 1..Len(all_subprojects) |-> WithoutParent(all_subprojects[i])]
    /\ pc' = "emitted"
    /\ UNCHANGED <<sigs_yaml, owners_yaml, all_owners, owners_to_subprojects, owners_trie,
                   notRp>>

EmitFails ==
    /\ pc = "emit"
    /\ \E i \in 1..Len(GroupsOf(sigs_yaml)) : GroupsOf(sigs_yaml)[i].subprojects.tag = "null"
    /\ pc' = "aborted"
    /\ UNCHANGED <<all_owners, rpVars, notRp>>

RpNext ==
    \/ MainLoadOwners
    \/ LoadAllGroupsAndSubprojects
    \/ LoadAllGroupsFails
    \/ FirstPass
    \/ SecondPass
    \/ Populate
    \/ Emit
    \/ EmitFails

Spec == RpInit /\ [][RpNext]_vars

----------------------------------------------------------------------------
(* Properties of the resolution in main (generate-owners-report.py).       *)

\* The places <<group, subproject>> of the emitted dataset.
EmittedPlaces ==
    {<<i, k>> : i \in 1..Len(emitted), k \in 1..(MaxSubprojects + 2)} \cap
    UNION {{<<i, k>> : k \in 1..Len(emitted[i].subprojects)} : i \in 1..Len(emitted)}
FinalOwners(pl) == Range(emitted[pl[1]].subprojects[pl[2]].owners)
Annotated(pl) == DOMAIN emitted[pl[1]].subprojects[pl[2]].reasons
NameAt(pl) == emitted[pl[1]].subprojects[pl[2]].name

\* The places of the subprojects the dataset itself declares, in its order.
DatasetPlaces ==
    {pl \in EmittedPlaces :
        /\ GroupsOf(sigs_yaml)[pl[1]].subprojects.tag = "list"
        /\ pl[2] <= Len(GroupsOf(sigs_yaml)[pl[1]].subprojects.items)}
DeclaredUris(pl) == Range(GroupsOf(sigs_yaml)[pl[1]].subprojects.items[pl[2]].owners)
Before(pl, ql) == pl[1] < ql[1] \/ (pl[1] = ql[1] /\ pl[2] < ql[2])

\* The org/repo/path a declared owners entry stands for.
DeclaredPath(u) ==
    CASE u = UriA -> PathRootOwners
      [] u = UriAB -> PathApiOwners
      [] u = UriB -> PathBOwners
      [] OTHER -> u
DeclaredPaths(pl) == {DeclaredPath(u) : u \in DeclaredUris(pl)}

\* The subproject names of the dataset are pairwise distinct and none of
\* them is the name of the catch-all.
NamesDistinct ==
    /\ \A pl, ql \in DatasetPlaces : NameAt(pl) = NameAt(ql) => pl = ql
    /\ \A pl \in DatasetPlaces : NameAt(pl) # "unknown"

\* C1 (as claimed): after resolution every path of the owners table is in the
\* final owners list of exactly one subproject of the emitted dataset, for
\* any dataset.
C1_ExactlyOneSubproject ==
    pc = "emitted" =>
        \A p \in DOMAIN all_owners :
            Cardinality({pl \in EmittedPlaces : p \in FinalOwners(pl)}) = 1

\* C1 (amended): the same for the datasets whose subproject names are
\* pairwise distinct and differ from 'unknown'; no list holds a path twice.
C1_ExactlyOneSubprojectDistinctNames ==
    (pc = "emitted" /\ NamesDistinct) =>
        /\ \A p \in DOMAIN all_owners :
               Cardinality({pl \in EmittedPlaces : p \in FinalOwners(pl)}) = 1
        /\ \A pl \in EmittedPlaces :
               NoDuplicates(emitted[pl[1]].subprojects[pl[2]].owners)

C1_Witness ==
    /\ pc = "emitted"
    /\ NamesDistinct
    /\ \E p, q \in DOMAIN all_owners :
          /\ p # q
          /\ \E pl \in DatasetPlaces : p \in FinalOwners(pl) /\ p \in Annotated(pl)
          /\ \E pl \in EmittedPlaces : NameAt(pl) = "unknown" /\ q \in FinalOwners(pl)

\* C2 (as claimed): every path a subproject of the dataset declares is in
\* that subproject's final owners list and carries no justification, also
\* when the declared lists of several subprojects overlap.
C2_DeclaredStaysWithDeclarer ==
    pc = "emitted" =>
        \A pl \in DatasetPlaces :
            \A p \in DeclaredPaths(pl) : p \in FinalOwners(pl) /\ p \notin Annotated(pl)

\* C2 (amended): in a dataset with pairwise distinct subproject names (none
\* 'unknown') a declared path is in the final owners list of the last
\* subproject, in dataset order, that declares it, without justification,
\* and in the list of no other subproject.
C2_DeclaredGoesToLastDeclarer ==
    (pc = "emitted" /\ NamesDistinct) =>
        \A pl \in DatasetPlaces :
            \A p \in DeclaredPaths(pl) :
                IF \E ql \in DatasetPlaces : Before(pl, ql) /\ p \in DeclaredPaths(ql)
                THEN p \notin FinalOwners(pl)
                ELSE p \in FinalOwners(pl) /\ p \notin Annotated(pl)

C2_Witness ==
    /\ pc = "emitted"
    /\ NamesDistinct
    /\ \E pl, ql \in DatasetPlaces :
          /\ Before(pl, ql)
          /\ UriA \in DeclaredUris(pl)
          /\ PathRootOwners \in DeclaredUris(ql)
          /\ PathRootOwners \in FinalOwners(ql)
          /\ UriAB \in DeclaredUris(pl)
          /\ PathApiOwners \in FinalOwners(pl)

\* The directory of an OWNERS file: the segments of the path without the
\* trailing file name OWNERS.
DirectoryOf(path) ==
    LET segs == Split(path, Slash)
    IN  IF segs[Len(segs)] = <<"OWNERS">> THEN SubSeq(segs, 1, Len(segs) - 1) ELSE segs
IsAncestorOrSelf(d, e) == Len(d) <= Len(e) /\ SubSeq(e, 1, Len(d)) = d
DeclaredDirs(pl) == {DirectoryOf(p) : p \in DeclaredPaths(pl)}

\* C3 (as claimed, for datasets with pairwise distinct subproject names): a
\* path of the owners table that no subproject declares is in the final list
\* of a subproject that declared the deepest directory which is, segment by
\* segment, an ancestor of (or is) the directory of the path, and in the
\* list of 'unknown' exactly when no declared directory is such an ancestor.
C3_DeepestDeclaredAncestor ==
    (pc = "emitted" /\ NamesDistinct) =>
        \A p \in DOMAIN all_owners \ UNION {DeclaredPaths(pl) : pl \in DatasetPlaces} :
            LET ancestors == {d \in UNION {DeclaredDirs(pl) : pl \in DatasetPlaces} :
                                 IsAncestorOrSelf(d, DirectoryOf(p))}
            IN  IF ancestors = {}
                THEN \E pl \in EmittedPlaces : NameAt(pl) = "unknown" /\ p \in FinalOwners(pl)
                ELSE \E pl \in DatasetPlaces :
                        /\ p \in FinalOwners(pl)
                        /\ \E d \in DeclaredDirs(pl) \cap ancestors :
                               \A e \in ancestors : Len(e) <= Len(d)

----------------------------------------------------------------------------
(* guess-subproject-owners.py and verify-subproject-owners.py: main, from  *)
(* the loading of the declared OWNERS files to the write of the document.  *)
(* `log` holds the warnings and findings of a run (logging.warn and        *)
(* logging.info("OK: ...") in guess, the printed lines "WARNING: ..." and  *)
(* "OK: ..." in verify), not the progress lines.                           *)

Scripts == {"guess", "verify"}

\* d.get(k, default)
Get(d, k, default) == IF k \in DOMAIN d THEN d[k] ELSE default

\* A YAML document of the work directory: its 'present' key and its other keys.
Doc(present, attrs) == [present |-> present, attrs |-> attrs]
\* {'present': False}
AbsentDoc == Doc(FALSE, EmptyDict)

AliasesFileName == <<"OWNERS", "_", "ALIASES">>
UriAliasesA == RawUri("kubernetes", "a", AliasesFileName)
PathAliasesA == <<"kubernetes", "/", "a", "/">> \o AliasesFileName

\* re.sub(r"(.*)/master/(.*)", r"\1/master/OWNERS_ALIASES", uri): the first
\* group is greedy, up to the last "/master/".
AliasUri(uri) ==
    LET masters == Occurrences(uri, SlashMasterSlash)
    IN  IF masters = {} THEN uri
        ELSE SubSeq(uri, 1, SetMax(masters) - 1) \o SlashMasterSlash \o AliasesFileName

\* dest_file and dest_alias_file of a declared URI.
DestFile(uri) == monorepo_path_from_raw_gh_uri(uri)
DestAliasFile(uri) == monorepo_path_from_raw_gh_uri(AliasUri(uri))

\* What the OWNERS files of the repositories hold.
OwnersContents ==
    {[approvers |-> <<"x", "team-a">>, reviewers |-> <<"y">>, labels |-> <<"sig/foo">>],
     [approvers |-> <<"y", None>>, reviewers |-> <<"team-a">>],
     [approvers |-> <<"x">>, labels |-> <<"area/b">>],
     [approvers |-> <<"team-a">>]}

\* What an OWNERS_ALIASES file holds: an 'aliases' table, or no such key.
AliasesContents ==
    {EmptyDict} \cup
    {[aliases |-> [a \in {"team-a"} |-> v]] :
        v \in {NullValue, ListValue(<<"y">>), ListValue(<<"x", "y">>)}}

\* The answer to requests.get(uri): a response that is ok and holds a YAML
\* mapping, a response that is not ok (404), a response that is ok and does
\* not parse as YAML, or no response (the request raises).
Response(kind, content) == [kind |-> kind, content |-> content]
FailedResponses ==
    {Response("not_ok", EmptyDict), Response("malformed", EmptyDict),
     Response("unreachable", EmptyDict)}
OwnersResponses == {Response("ok", c) : c \in OwnersContents} \cup FailedResponses
AliasesResponses == {Response("ok", c) : c \in AliasesContents} \cup FailedResponses
Remotes ==
    {r \in [{UriA, UriAB, UriAliasesA} -> OwnersResponses \cup AliasesResponses] :
        /\ r[UriA] \in OwnersResponses
        /\ r[UriAB] \in OwnersResponses
        /\ r[UriAliasesA] \in AliasesResponses}

\* The document: sigs with their subprojects, as a dataset that was never
\* loaded before has them (no 'paths', 'common' or 'union' key yet).
ConsensusOwnersLists == {<<>>, <<UriA>>, <<UriA, UriAB>>}
ConsensusSubprojects ==
    [name : {"core", "api"}, owners : ConsensusOwnersLists,
     paths : {<<>>}, common : {EmptyDict}, union : {EmptyDict}]
ConsensusSigs ==
    {SigFoo(sp) : sp \in NoSubprojects \cup
                         {ListOfSubprojects(l) :
                             l \in SeqsUpTo(ConsensusSubprojects, MaxSubprojects)}}
ConsensusDatasets == {<<g>> : g \in ConsensusSigs}

\* get_cached_file / ensure_exists returns: the file is cached already, or
\* the response is ok and parses into a mapping, or the response is not ok.
CanCache(files, dest_file, uri) ==
    dest_file \in DOMAIN files \/ remote[uri].kind \in {"ok", "not_ok"}

\* The work directory after get_cached_file / ensure_exists.
get_cached_file(files, dest_file, uri) ==
    IF dest_file \in DOMAIN files THEN files
    ELSE LET owners == IF remote[uri].kind = "ok"
                       THEN Doc(TRUE, remote[uri].content) ELSE AbsentDoc
         IN  [f \in DOMAIN files \cup {dest_file} |->
                 IF f = dest_file THEN owners ELSE files[f]]

\* A warning or finding: the level, the message, and what the message names.
Msg(level, text, sp_id, path, name, count) ==
    [level |-> level, text |-> text, sp_id |-> sp_id, path |-> path,
     name |-> name, count |-> count]

\* verify-subproject-owners.py, lines 96-109: the list `expanded` ...
RECURSIVE InlineExpanded(_, _)
InlineExpanded(es, als) ==
    IF es = <<>> THEN <<>>
    ELSE LET x == Head(es)
             ax == IF x \in DOMAIN als
                   THEN IF als[x].tag = "null" THEN <<>> ELSE als[x].items
                   ELSE IF x = None THEN <<>> ELSE <<x>>
         IN  ax \o InlineExpanded(Tail(es), als)

\* ... and the warnings printed on the way.
RECURSIVE InlineWarnings(_, _, _)
InlineWarnings(dest_file, es, als) ==
    IF es = <<>> THEN <<>>
    ELSE LET x == Head(es)
             w == IF x \in DOMAIN als
                  THEN IF als[x].tag = "null"
                       THEN <<Msg("WARNING", "using empty alias", <<>>, dest_file, x, 0)>>
                       ELSE <<>>
                  ELSE IF x = None
                       THEN <<Msg("WARNING", "using empty entry", <<>>, dest_file, "", 0)>>
                       ELSE <<>>
         IN  w \o InlineWarnings(dest_file, Tail(es), als)

ExpandedKeys == <<"approvers", "reviewers">>

\* The records `paths[dest_file]` may become: in guess both keys are set to
\* list(expanded), in any order of the set; in verify the keys the file has
\* are set to the list `expanded`.
LoadedRecords(scr, owners, als) ==
    IF scr = "guess"
    THEN {[owners EXCEPT !.attrs =
              [k \in DOMAIN owners.attrs \cup Range(ExpandedKeys) |->
                  IF k = "approvers" THEN la
                  ELSE IF k = "reviewers" THEN lr
                  ELSE owners.attrs[k]]] :
            la \in ListsOf(expand_aliases(Get(owners.attrs, "approvers", <<>>), als)),
            lr \in ListsOf(expand_aliases(Get(owners.attrs, "reviewers", <<>>), als))}
    ELSE {[owners EXCEPT !.attrs =
              [k \in DOMAIN owners.attrs |->
                  IF k \in Range(ExpandedKeys)
                  THEN InlineExpanded(owners.attrs[k], als)
                  ELSE owners.attrs[k]]]}

\* The warnings of the expansion of one file: none in guess.
LoadWarnings(scr, dest_file, owners, als) ==
    IF scr = "guess" THEN <<>>
    ELSE (IF "approvers" \in DOMAIN owners.attrs
          THEN InlineWarnings(dest_file, owners.attrs["approvers"], als) ELSE <<>>)
         \o (IF "reviewers" \in DOMAIN owners.attrs
             THEN InlineWarnings(dest_file, owners.attrs["reviewers"], als) ELSE <<>>)

\* `dest_file in paths`, for the dict kept as the list of its items.
HasPath(ps, dest_file) == \E i \in 1..Len(ps) : ps[i].path = dest_file

\* `subprojects = sig.get('subprojects', [])`, and [] for None.
SubprojectsOf(sig) == IF sig.subprojects.tag = "list" THEN sig.subprojects.items ELSE <<>>

\* "%s/%s" % (sig['dir'], sp['name'])
SpId(sig, sp) == <<sig.dir, Slash, sp.name>>

\* The sigs with subproject j of sig i replaced: the objects are changed in place.
WithSubproject(gs, i, j, sp) == [gs EXCEPT ![i].subprojects.items[j] = sp]

\* set(owners.get(k, []))
AttrSet(owners, k) == Range(Get(owners.attrs, k, <<>>))

\* set.union(*vs) and set.intersection(*vs) for the records of a subproject.
UnionOf(ps, k) == UNION {AttrSet(ps[i].owners, k) : i \in 1..Len(ps)}
\* Mutant of CommonOf: the records of the missing files are left out.
CommonOfPresent(ps, k) ==
    {v \in UnionOf(ps, k) :
        \A i \in 1..Len(ps) : ps[i].owners.present => v \in AttrSet(ps[i].owners, k)}

CommonOf(ps, k) == {v \in UnionOf(ps, k) : \A i \in 1..Len(ps) : v \in AttrSet(ps[i].owners, k)}

\* The attribute classes the analysis goes through: line 137 of guess,
\* line 135 of verify.
AnalysedKeys(scr) ==
    IF scr = "guess" THEN <<"approvers", "reviewers", "labels">>
    ELSE <<"approvers", "labels">>

\* The dicts over the keys K whose value at k is list(S[k]), in any order.
ListDicts(K, S) ==
    {f \in [K -> UNION {ListsOf(S[k]) : k \in K}] : \A k \in K : f[k] \in ListsOf(S[k])}

\* d after `d[k] = new[k]` for every key of new.
Updated(d, new) ==
    [k \in DOMAIN d \cup DOMAIN new |-> IF k \in DOMAIN new THEN new[k] ELSE d[k]]

\* The order of sp['paths'].items(): the order of insertion in guess
\* (Python 3), any order in verify (Python 2).
IterationOrders(scr, ps) ==
    IF scr = "guess" THEN {[i \in 1..Len(ps) |-> i]} ELSE ListsOf(1..Len(ps))

\* The warnings about files that are not present.
PresenceWarnings(sp_id, ps, order) ==
    LET items == [i \in 1..Len(ps) |-> ps[order[i]]]
        missing == SelectSeq(items, LAMBDA e : ~e.owners.present)
    IN  (IF \A i \in 1..Len(ps) : ~ps[i].owners.present
         THEN <<Msg("WARNING", "is missing ALL of its OWNERS files", sp_id, <<>>, "", 0)>>
         ELSE <<>>)
        \o [i \in 1..Len(missing) |->
               Msg("WARNING", "is missing", sp_id, missing[i].path, "", 0)]

\* The finding of one attribute class.
Finding(sp_id, ps, k) ==
    IF Len(ps) > 1
    THEN IF Cardinality(CommonOf(ps, k)) # Cardinality(UnionOf(ps, k))
            /\ Cardinality(CommonOf(ps, k)) = 0
         THEN <<Msg("WARNING", "has no common", sp_id, <<>>, k, 0)>>
         ELSE <<Msg("OK", "has common", sp_id, <<>>, k, Cardinality(CommonOf(ps, k)))>>
    ELSE <<>>

RECURSIVE Findings(_, _, _)
Findings(sp_id, ps, ks) ==
    IF ks = <<>> THEN <<>>
    ELSE Finding(sp_id, ps, Head(ks)) \o Findings(sp_id, ps, Tail(ks))

CnInit ==
    /\ pc = "loading"
    /\ script \in Scripts
    /\ groups \in ConsensusDatasets
    /\ remote \in Remotes
    /\ workdir = EmptyDict
    /\ paths = <<>>
    /\ log = <<>>
    /\ cn_sig = 1
    /\ cn_sp = 0
    /\ cn_uri = 0
    /\ written = <<>>
    /\ cause = ""
    /\ all_owners = EmptyDict
    /\ ExIdle /\ PrIdle /\ SgIdle /\ RpIdle /\ CvIdle /\ LdIdle

\* The loading loop takes the next sig.  verify warns about a sig without a
\* subprojects key and about one whose key is null; guess does neither.
LoadSig ==
    /\ pc = "loading"
    /\ cn_sig <= Len(groups)
    /\ cn_sp = 0
    /\ ~(script = "guess" /\ groups[cn_sig].subprojects.tag = "null")
    /\ log' = log \o
         (IF script = "verify" /\ groups[cn_sig].subprojects.tag = "missing"
          THEN <<Msg("WARNING", "has no subprojects", <<groups[cn_sig].dir>>, <<>>, "", 0)>>
          ELSE IF script = "verify" /\ groups[cn_sig].subprojects.tag = "null"
          THEN <<Msg("WARNING", "has an empty subprojects: field",
                     <<groups[cn_sig].dir>>, <<>>, "", 0)>>
          ELSE <<>>)
    /\ cn_sp' = 1
    /\ UNCHANGED <<pc, script, groups, remote, workdir, paths, cn_sig, cn_uri, written,
                   cause, notCn>>

\* guess, line 112: `for sp in subprojects` with subprojects None raises.
LoadSigFails ==
    /\ pc = "loading"
    /\ cn_sig <= Len(groups)
    /\ cn_sp = 0
    /\ script = "guess" /\ groups[cn_sig].subprojects.tag = "null"
    /\ pc' = "aborted"
    /\ cause' = "TypeError"
    /\ UNCHANGED <<script, groups, remote, workdir, paths, log, cn_sig, cn_sp, cn_uri,
                   written, notCn>>

\* `paths = sp.get('paths', {})`
LoadSubproject ==
    /\ pc = "loading"
    /\ cn_sig <= Len(groups)
    /\ cn_sp >= 1 /\ cn_sp <= Len(SubprojectsOf(groups[cn_sig]))
    /\ cn_uri = 0
    /\ paths' = SubprojectsOf(groups[cn_sig])[cn_sp].paths
    /\ cn_uri' = 1
    /\ UNCHANGED <<pc, script, groups, remote, workdir, log, cn_sig, cn_sp, written,
                   cause, notCn>>

\* One iteration of `for uri in sp['owners']`: both files are cached, and the
\* record of a file that `paths` does not hold yet is expanded and stored.
LoadOwnersFile ==
    /\ pc = "loading"
    /\ cn_sig <= Len(groups)
    /\ cn_sp >= 1 /\ cn_sp <= Len(SubprojectsOf(groups[cn_sig]))
    /\ cn_uri >= 1 /\ cn_uri <= Len(SubprojectsOf(groups[cn_sig])[cn_sp].owners)
    /\ LET uri == SubprojectsOf(groups[cn_sig])[cn_sp].owners[cn_uri]
           dest_file == DestFile(uri)
           dest_alias_file == DestAliasFile(uri)
           cached == get_cached_file(workdir, dest_file, uri)
           files == get_cached_file(cached, dest_alias_file, AliasUri(uri))
       IN  /\ CanCache(workdir, dest_file, uri)
           /\ CanCache(cached, dest_alias_file, AliasUri(uri))
           /\ workdir' = files
           /\ IF HasPath(paths, dest_file)
              THEN UNCHANGED <<paths, log>>
              ELSE LET owners == files[dest_file]
                       als == Get(files[dest_alias_file].attrs, "aliases", EmptyDict)
                   IN  /\ \E rec \in LoadedRecords(script, owners, als) :
                              paths' = Append(paths, [path |-> dest_file, owners |-> rec])
                       /\ log' = log \o LoadWarnings(script, dest_file, owners, als)
    /\ cn_uri' = cn_uri + 1
    /\ UNCHANGED <<pc, script, groups, remote, cn_sig, cn_sp, written, cause, notCn>>

\* get_cached_file / ensure_exists raises: yaml.load on a response that does
\* not parse, or requests.get itself.  A file cached before stays cached.
LoadOwnersFileFails ==
    /\ pc = "loading"
    /\ cn_sig <= Len(groups)
    /\ cn_sp >= 1 /\ cn_sp <= Len(SubprojectsOf(groups[cn_sig]))
    /\ cn_uri >= 1 /\ cn_uri <= Len(SubprojectsOf(groups[cn_sig])[cn_sp].owners)
    /\ LET uri == SubprojectsOf(groups[cn_sig])[cn_sp].owners[cn_uri]
           dest_file == DestFile(uri)
           dest_alias_file == DestAliasFile(uri)
           cached == get_cached_file(workdir, dest_file, uri)
       IN  IF ~CanCache(workdir, dest_file, uri)
           THEN /\ workdir' = workdir
                /\ cause' = IF remote[uri].kind = "malformed"
                            THEN "YAMLError" ELSE "ConnectionError"
           ELSE /\ ~CanCache(cached, dest_alias_file, AliasUri(uri))
                /\ workdir' = cached
                /\ cause' = IF remote[AliasUri(uri)].kind = "malformed"
                            THEN "YAMLError" ELSE "ConnectionError"
    /\ pc' = "aborted"
    /\ UNCHANGED <<script, groups, remote, paths, log, cn_sig, cn_sp, cn_uri, written,
                   notCn>>

\* `sp['paths'] = paths`
LoadSubprojectDone ==
    /\ pc = "loading"
    /\ cn_sig <= Len(groups)
    /\ cn_sp >= 1 /\ cn_sp <= Len(SubprojectsOf(groups[cn_sig]))
    /\ cn_uri >= 1 /\ cn_uri > Len(SubprojectsOf(groups[cn_sig])[cn_sp].owners)
    /\ groups' = WithSubproject(groups, cn_sig, cn_sp,
                     [SubprojectsOf(groups[cn_sig])[cn_sp] EXCEPT !.paths = paths])
    /\ paths' = <<>>
    /\ cn_sp' = cn_sp + 1
    /\ cn_uri' = 0
    /\ UNCHANGED <<pc, script, remote, workdir, log, cn_sig, written, cause, notCn>>

\* The subprojects of the sig are exhausted.
LoadSigDone ==
    /\ pc = "loading"
    /\ cn_sig <= Len(groups)
    /\ cn_sp >= 1 /\ cn_sp > Len(SubprojectsOf(groups[cn_sig]))
    /\ cn_sig' = cn_sig + 1
    /\ cn_sp' = 0
    /\ UNCHANGED <<pc, script, groups, remote, workdir, paths, log, cn_uri, written,
                   cause, notCn>>

\* The loading loop is exhausted: the analysis starts.
LoadDone ==
    /\ pc = "loading"
    /\ cn_sig > Len(groups)
    /\ pc' = "analysis"
    /\ cn_sig' = 1
    /\ cn_sp' = 1
    /\ UNCHANGED <<script, groups, remote, workdir, paths, log, cn_uri, written, cause,
                   notCn>>

\* The body of the analysis loop for one subproject that has records.
AnalyseSubproject ==
    /\ pc = "analysis"
    /\ cn_sig <= Len(groups)
    /\ cn_sp <= Len(SubprojectsOf(groups[cn_sig]))
    /\ LET sp == SubprojectsOf(groups[cn_sig])[cn_sp]
           sp_id == SpId(groups[cn_sig], sp)
           ks == AnalysedKeys(script)
       IN  /\ sp.paths # <<>>
           /\ \E order \in IterationOrders(script, sp.paths),
                 common \in ListDicts(Range(ks), [k \in Range(ks) |-> CommonOf(sp.paths, k)]),
                 union \in ListDicts(Range(ks), [k \in Range(ks) |-> UnionOf(sp.paths, k)]) :
                 /\ groups' = WithSubproject(groups, cn_sig, cn_sp,
                                  [sp EXCEPT !.common = Updated(sp.common, common),
                                             !.union = Updated(sp.union, union)])
                 /\ log' = log \o PresenceWarnings(sp_id, sp.paths, order)
                               \o Findings(sp_id, sp.paths, ks)
    /\ cn_sp' = cn_sp + 1
    /\ UNCHANGED <<pc, script, remote, workdir, paths, cn_sig, cn_uri, written, cause,
                   notCn>>

\* A subproject without records: all() of nothing is true, the warning is
\* logged, and set.intersection(*[]) raises.
AnalyseSubprojectFails ==
    /\ pc = "analysis"
    /\ cn_sig <= Len(groups)
    /\ cn_sp <= Len(SubprojectsOf(groups[cn_sig]))
    /\ LET sp == SubprojectsOf(groups[cn_sig])[cn_sp]
       IN  /\ sp.paths = <<>>
           /\ log' = log \o PresenceWarnings(SpId(groups[cn_sig], sp), sp.paths, <<>>)
    /\ pc' = "aborted"
    /\ cause' = "TypeError"
    /\ UNCHANGED <<script, groups, remote, workdir, paths, cn_sig, cn_sp, cn_uri, written,
                   notCn>>

AnalyseSigDone ==
    /\ pc = "analysis"
    /\ cn_sig <= Len(groups)
    /\ cn_sp > Len(SubprojectsOf(groups[cn_sig]))
    /\ cn_sig' = cn_sig + 1
    /\ cn_sp' = 1
    /\ UNCHANGED <<pc, script, groups, remote, workdir, paths, log, cn_uri, written, cause,
                   notCn>>

\* `yaml.dump(groups, fp)`
WriteOutput ==
    /\ pc = "analysis"
    /\ cn_sig > Len(groups)
    /\ written' = groups
    /\ pc' = "written"
    /\ UNCHANGED <<script, groups, remote, workdir, paths, log, cn_sig, cn_sp, cn_uri,
                   cause, notCn>>

CnNext ==
    \/ LoadSig
    \/ LoadSigFails
    \/ LoadSubproject
    \/ LoadOwnersFile
    \/ LoadOwnersFileFails
    \/ LoadSubprojectDone
    \/ LoadSigDone
    \/ LoadDone
    \/ AnalyseSubproject
    \/ AnalyseSubprojectFails
    \/ AnalyseSigDone
    \/ WriteOutput

SpecConsensus == CnInit /\ [][CnNext]_vars

----------------------------------------------------------------------------
(* Properties of the loading and the consensus analysis.                   *)

AttributeClasses == {"approvers", "reviewers", "labels"}

\* The subprojects of the document, as <<sig, subproject>> index pairs.
ConsensusPlaces ==
    {<<i, j>> : i \in 1..Len(groups), j \in 1..MaxSubprojects} \cap
    UNION {{<<i, j>> : j \in 1..Len(SubprojectsOf(groups[i]))} : i \in 1..Len(groups)}
SubprojectAt(pl) == SubprojectsOf(groups[pl[1]])[pl[2]]

\* The items path -> record stored so far: those of the subprojects and those
\* of the subproject being loaded.
LoadedItems ==
    UNION {Range(SubprojectAt(pl).paths) : pl \in ConsensusPlaces} \cup Range(paths)

\* The alias table of the repository kubernetes/a, as cached.
CachedAliases ==
    IF PathAliasesA \in DOMAIN workdir
    THEN Get(workdir[PathAliasesA].attrs, "aliases", EmptyDict)
    ELSE EmptyDict

\* The subproject names of the document are pairwise distinct.
ConsensusNamesDistinct ==
    \A pl, ql \in ConsensusPlaces :
        SubprojectAt(pl).name = SubprojectAt(ql).name => pl = ql

\* C6 (as claimed): whenever a stored record was expanded from a file whose
\* approvers or reviewers name an alias with a null value, the alias name is
\* not among the record's identifiers and a warning that names the file and
\* the alias has been emitted, in guess as in verify.
C6_NullAliasWarns ==
    \A e \in LoadedItems : \A k \in {"approvers", "reviewers"} :
        \A x \in DOMAIN CachedAliases :
            (/\ CachedAliases[x].tag = "null"
             /\ x \in Range(Get(workdir[e.path].attrs, k, <<>>)))
            => /\ x \notin AttrSet(e.owners, k)
               /\ \E i \in 1..Len(log) :
                      /\ log[i].level = "WARNING"
                      /\ log[i].text = "using empty alias"
                      /\ log[i].path = e.path
                      /\ log[i].name = x

\* C7 (as claimed): in the written document every subproject has, for each
\* of approvers, reviewers and labels, a common entry that is the
\* intersection and a union entry that is the union of that attribute over
\* the subproject's records; with one record the two are equal.
C7_CommonAndUnion ==
    pc = "written" =>
        \A pl \in ConsensusPlaces : \A k \in AttributeClasses :
            LET sp == SubprojectsOf(written[pl[1]])[pl[2]]
                sets == {Range(Get(sp.paths[i].owners.attrs, k, <<>>)) : i \in 1..Len(sp.paths)}
            IN  /\ k \in DOMAIN sp.common
                /\ k \in DOMAIN sp.union
                /\ Range(sp.common[k]) = {v \in UNION sets : \A t \in sets : v \in t}
                /\ Range(sp.union[k]) = UNION sets
                /\ Len(sp.paths) = 1 => Range(sp.common[k]) = Range(sp.union[k])

\* The findings of the consensus analysis about attribute class k of a subproject.
ConsensusFindings(sp_id, k) ==
    {i \in 1..Len(log) :
        /\ log[i].text \in {"has no common", "has common"}
        /\ log[i].sp_id = sp_id
        /\ log[i].name = k}

\* C8 (as claimed, for documents with pairwise distinct subproject names):
\* after the analysis a subproject with two or more records has exactly one
\* finding for each of approvers, reviewers and labels, a warning when the
\* intersection is empty and the union is not, an OK with the size of the
\* intersection when the intersection is not empty; a subproject with one
\* record has no finding.
C8_OneFindingPerClass ==
    (pc = "written" /\ ConsensusNamesDistinct) =>
        \A pl \in ConsensusPlaces : \A k \in AttributeClasses :
            LET sp == SubprojectAt(pl)
                sets == {Range(Get(sp.paths[i].owners.attrs, k, <<>>)) : i \in 1..Len(sp.paths)}
                inter == {v \in UNION sets : \A t \in sets : v \in t}
                found == ConsensusFindings(SpId(groups[pl[1]], sp), k)
            IN  IF Len(sp.paths) >= 2
                THEN /\ Cardinality(found) = 1
                     /\ \A i \in found :
                            /\ (inter = {} /\ UNION sets # {}) => log[i].level = "WARNING"
                            /\ inter # {} =>
                                   log[i].level = "OK" /\ log[i].count = Cardinality(inter)
                ELSE found = {}

\* C10 (as claimed): a declared OWNERS file, or its alias file, whose fetch
\* or parse fails does not end the run, and the record of an OWNERS file
\* that could not be fetched or parsed is stored with present = false.
C10_FailureIsRecorded ==
    /\ pc = "aborted" => cause \notin {"YAMLError", "ConnectionError"}
    /\ \A e \in LoadedItems : \A uri \in DOMAIN remote :
           (DestFile(uri) = e.path /\ remote[uri].kind # "ok") => ~e.owners.present

----------------------------------------------------------------------------
(* The two path conversions of generate-owners-report.py, lines 83-89,     *)
(* applied one after the other to a raw URI or to a monorepo path.         *)

\* re.sub(r"([^/]+)/(.*)", r"https://raw.githubusercontent.com/\1/master/\2", path):
\* the leftmost match starts at the first character that is no "/", its
\* first group runs up to the next "/", its second to the end.  A path
\* without a "/" after its first segment is returned as it is.
raw_gh_uri_from_monorepo_path(path) ==
    LET starts == {i \in 1..Len(path) : path[i] # Slash}
        slashes(i) == {j \in 1..Len(path) : j > i /\ path[j] = Slash}
    IN  IF starts = {} \/ slashes(SetMin(starts)) = {} THEN path
        ELSE LET i == SetMin(starts)
                 j == SetMin(slashes(i))
             IN  SubSeq(path, 1, i - 1) \o RawPrefix \o SubSeq(path, i, j - 1)
                     \o SlashMasterSlash \o SubSeq(path, j + 1, Len(path))

\* The orgs, repos and paths below a repository that the round trips start from.
ConvertOrgs == {"kubernetes", "a"}
ConvertRepos == {"a", "b", "kubernetes", "master"}
ConvertFiles ==
    {<<"OWNERS">>, <<"b", "/", "OWNERS">>, <<"OWNERS", "_", "ALIASES">>,
     <<"master", "/", "OWNERS">>, <<"a", "/", "master", "/", "OWNERS">>}

\* https://raw.githubusercontent.com/<org>/<repo>/master/<path>
ConvertUris == {RawUri(o, r, f) : o \in ConvertOrgs, r \in ConvertRepos, f \in ConvertFiles}
\* <org>/<repo>/<path>
ConvertPaths == {<<o, "/", r, "/">> \o f : o \in ConvertOrgs, r \in ConvertRepos, f \in ConvertFiles}

CvInit ==
    /\ pc = "convert"
    /\ \/ cv_from = "uri" /\ \E u \in ConvertUris : cv_trace = <<u>>
       \/ cv_from = "path" /\ \E p \in ConvertPaths : cv_trace = <<p>>
    /\ all_owners = EmptyDict
    /\ ExIdle /\ PrIdle /\ SgIdle /\ RpIdle /\ CnIdle /\ LdIdle

\* monorepo_path_from_raw_gh_uri is applied to the URI, or to the URI made from the path.
ToMonorepoPath ==
    /\ pc = "convert"
    /\ (cv_from = "uri" /\ Len(cv_trace) = 1) \/ (cv_from = "path" /\ Len(cv_trace) = 2)
    /\ cv_trace' = Append(cv_trace, monorepo_path_from_raw_gh_uri(cv_trace[Len(cv_trace)]))
    /\ pc' = IF Len(cv_trace') = 3 THEN "converted" ELSE pc
    /\ UNCHANGED <<cv_from, notCv>>

\* raw_gh_uri_from_monorepo_path is applied to the path, or to the path made from the URI.
ToRawUri ==
    /\ pc = "convert"
    /\ (cv_from = "path" /\ Len(cv_trace) = 1) \/ (cv_from = "uri" /\ Len(cv_trace) = 2)
    /\ cv_trace' = Append(cv_trace, raw_gh_uri_from_monorepo_path(cv_trace[Len(cv_trace)]))
    /\ pc' = IF Len(cv_trace') = 3 THEN "converted" ELSE pc
    /\ UNCHANGED <<cv_from, notCv>>

CvNext == ToMonorepoPath \/ ToRawUri

SpecConvert == CvInit /\ [][CvNext]_vars

\* C11 (as claimed): the two conversions are mutually inverse: a URI
\* https://raw.githubusercontent.com/<org>/<repo>/master/<path> converted to a
\* monorepo path and back is the same URI, and an org/repo/path converted to a
\* URI and back is the same path.
C11_MutuallyInverse ==
    pc = "converted" => cv_trace[3] = cv_trace[1]

----------------------------------------------------------------------------
(* load_all_groups_and_subprojects (generate-owners-report.py, 223-257).   *)

\* g['subprojects'] of a group object after the load: its subprojects as
\* subprojects_from_k8s_group left them and, for committee-steering, the
\* placeholder that line 255 appends.
ListedAfterLoad(g) ==
    subprojects_from_k8s_group(g)
        \o (IF g.dir = "committee-steering" THEN <<UnknownSubproject>> ELSE <<>>)

\* C12 (as claimed): for every dataset, load_all_groups_and_subprojects does
\* not fail, the subproject table then holds under 'unknown' the synthetic
\* catch-all (no declared owners, parent committee-steering), and that
\* subproject is listed exactly once among the subprojects of the group
\* committee-steering.
C12_UnknownAlwaysLoaded ==
    /\ pc = "aborted" => all_subprojects # <<>>
    /\ pc = "first_pass" =>
          /\ HasName(all_subprojects, "unknown")
          /\ ByName(all_subprojects, "unknown") = UnknownSubproject
          /\ \E i \in 1..Len(GroupsOf(sigs_yaml)) :
                 /\ GroupsOf(sigs_yaml)[i].dir = "committee-steering"
                 /\ Cardinality({k \in 1..Len(ListedAfterLoad(GroupsOf(sigs_yaml)[i])) :
                        ListedAfterLoad(GroupsOf(sigs_yaml)[i])[k] = UnknownSubproject}) = 1

----------------------------------------------------------------------------
(* do_things_with_sigs_yaml.py: write_repo_groups_sql, one update          *)
(* statement per sig.  A statement is kept as the two values the template  *)
(* is filled with: the name of the sig and the list of quoted repos.       *)

RepoKubernetes == <<"kubernetes", "/", "kubernetes">>

\* Mutant of StatementRepos: kubernetes/kubernetes is not removed.
StatementReposKeepsKubernetes(sig) == repos_from_sig(sig)

\* `repos = repos_from_sig(sig)` and
\* `if 'kubernetes/kubernetes' in repos: repos.remove('kubernetes/kubernetes')`
StatementRepos(sig) ==
    IF RepoKubernetes \in Range(repos_from_sig(sig))
    THEN RemoveFirst(repos_from_sig(sig), RepoKubernetes)
    ELSE repos_from_sig(sig)

\* update_gha_repos_template.format(sig['name'], ',\n'.join(...))
Statement(sig) == [repo_group |-> <<"SIG", sig.name>>, names |-> StatementRepos(sig)]

SqInit ==
    /\ pc = "sql"
    /\ sigs \in SigLists
    /\ committees \in CommitteeLists
    /\ sg_i = 1
    /\ repos = EmptyDict
    /\ report = <<>>
    /\ sql = <<>>
    /\ all_owners = EmptyDict
    /\ ExIdle /\ PrIdle /\ RpIdle /\ CnIdle /\ CvIdle /\ LdIdle

\* One iteration of `for sig in sigs['sigs']` with `len(repos)` true: fp.write.
WriteStatement ==
    /\ pc = "sql"
    /\ sg_i <= Len(sigs)
    /\ StatementRepos(sigs[sg_i]) # <<>>
    /\ sql' = Append(sql, Statement(sigs[sg_i]))
    /\ sg_i' = sg_i + 1
    /\ UNCHANGED <<pc, sigs, committees, repos, report, notSg>>

\* One iteration with no repos left: nothing is written.
WriteNothing ==
    /\ pc = "sql"
    /\ sg_i <= Len(sigs)
    /\ StatementRepos(sigs[sg_i]) = <<>>
    /\ sg_i' = sg_i + 1
    /\ UNCHANGED <<pc, sigs, committees, repos, report, sql, notSg>>

\* The loop is exhausted: write_repo_groups_sql returns.
WriteReturn ==
    /\ pc = "sql"
    /\ sg_i > Len(sigs)
    /\ pc' = "sql_done"
    /\ UNCHANGED <<sigs, committees, sg_i, repos, report, sql, notSg>>

SqNext == WriteStatement \/ WriteNothing \/ WriteReturn

SpecSql == SqInit /\ [][SqNext]_vars

\* The repositories of sig i other than kubernetes/kubernetes.
OwnedRepos(i) ==
    {r \in {<<"kubernetes", "/", "a">>, <<"kubernetes", "/", "b">>, RepoKubernetes} :
        i \in OwningSigs(r)} \ {RepoKubernetes}

\* The statements written for sig i.
StatementsOf(i) == {k \in 1..Len(sql) : sql[k].repo_group = <<"SIG", sigs[i].name>>}

\* The repositories, other than kubernetes/kubernetes, of a group of either
\* kind, and the statements that name the group.
GroupRepos(g) ==
    {r \in {<<"kubernetes", "/", "a">>, <<"kubernetes", "/", "b">>} :
        /\ g.subprojects.tag = "list"
        /\ \E k \in 1..Len(g.subprojects.items) :
               \E u \in Range(g.subprojects.items[k].owners) : RepoOfUri(u) = r}
StatementsNaming(g) == {k \in 1..Len(sql) : sql[k].repo_group[2] = g.name}

\* C13 (as claimed): write_repo_groups_sql writes exactly one statement for
\* every group, sig or committee, that owns a repository other than
\* kubernetes/kubernetes and none for any other group; the statement lists
\* exactly the repositories of the group, each once, in ascending order, and
\* kubernetes/kubernetes is in no statement.
C13_OneStatementPerOwningGroup ==
    pc = "sql_done" =>
        /\ \A i \in 1..Len(sigs \o committees) :
               LET g == (sigs \o committees)[i]
               IN  /\ Cardinality(StatementsNaming(g)) = (IF GroupRepos(g) # {} THEN 1 ELSE 0)
                   /\ \A k \in StatementsNaming(g) :
                          /\ Range(sql[k].names) = GroupRepos(g)
                          /\ NoDuplicates(sql[k].names)
                          /\ \A a, b \in 1..Len(sql[k].names) :
                                 a < b => StrLess(sql[k].names[a], sql[k].names[b])
        /\ \A k \in 1..Len(sql) : RepoKubernetes \notin Range(sql[k].names)

\* C13 (amended): write_repo_groups_sql writes exactly one statement for every
\* sig, that is every group listed under 'sigs', that owns a repository other
\* than kubernetes/kubernetes, and none for any other sig nor for a group of
\* another kind; the statement lists exactly the repositories of the sig
\* other than kubernetes/kubernetes, each once, in ascending order.
C13_OneStatementPerOwningSig ==
    pc = "sql_done" =>
        /\ \A i \in 1..Len(sigs) :
               /\ Cardinality(StatementsOf(i)) = (IF OwnedRepos(i) # {} THEN 1 ELSE 0)
               /\ \A k \in StatementsOf(i) :
                      /\ Range(sql[k].names) = OwnedRepos(i)
                      /\ NoDuplicates(sql[k].names)
                      /\ \A a, b \in 1..Len(sql[k].names) :
                             a < b => StrLess(sql[k].names[a], sql[k].names[b])
        /\ \A k \in 1..Len(sql) :
               /\ RepoKubernetes \notin Range(sql[k].names)
               /\ \E i \in 1..Len(sigs) : k \in StatementsOf(i)
        /\ \A c \in 1..Len(committees) : StatementsNaming(committees[c]) = {}

\* Three sigs and a committee that owns a repository: a sig with nothing but
\* kubernetes/kubernetes, a sig with kubernetes/kubernetes and two more, and a
\* sig whose two owners files are in one repository, listed once.
C13_Witness ==
    /\ pc = "sql_done"
    /\ Len(sigs) = 3
    /\ Len(sql) = 2
    /\ \E c \in 1..Len(committees) : GroupRepos(committees[c]) # {}
    /\ \E i \in 1..Len(sigs) : RepoKubernetes \in Range(repos_from_sig(sigs[i])) /\ OwnedRepos(i) = {}
    /\ \E i \in 1..Len(sigs) :
          /\ RepoKubernetes \in Range(repos_from_sig(sigs[i]))
          /\ Cardinality(OwnedRepos(i)) = 2
    /\ \E i \in 1..Len(sigs) :
          /\ sigs[i].subprojects.tag = "list"
          /\ sigs[i].subprojects.items[1].owners = <<UriA, UriAB>>
          /\ \E k \in StatementsOf(i) : sql[k].names = <<<<"kubernetes", "/", "a">>>>

----------------------------------------------------------------------------
(* The names the resolution computes (generate-owners-report.py, 303-339). *)

\* Every name in the trie and every name guessed for a path is a key of the
\* subproject table: the lookups of lines 327 and 337 find their key in
\* every run, so the KeyError that would end the run there is never raised.
\* Once line 336 has popped the names, every guess holds its own path.
ResolvedNamesAreInTable ==
    /\ \A k \in DOMAIN owners_trie : HasName(all_subprojects, owners_trie[k])
    /\ \A p \in DOMAIN owners_to_subprojects :
           IF "name" \in DOMAIN owners_to_subprojects[p]
           THEN /\ pc \in {"second_pass", "populate"}
                /\ HasName(all_subprojects, owners_to_subprojects[p].name)
           ELSE /\ pc \in {"emit", "emitted", "aborted"}
                /\ owners_to_subprojects[p].path = p

----------------------------------------------------------------------------
(* generate-owners-report.py with --refresh-owners-yaml: main up to the    *)
(* dump of owners.yaml (lines 284-293), run after run over the same        *)
(* owners.yaml, with and without --refresh-repos, the files of the         *)
(* repositories changing between the runs.  A directory is there when a    *)
(* file of repo_files is below it.                                         *)
(* A document (an OWNERS file, a record, an OWNERS_ALIASES file) is a       *)
(* dict: a function from its keys to their values.                         *)

MaxRuns == 2

\* repo_path and paths = [os.path.join(repo_path, org)] for the org kubernetes.
RepoPath == <<"/", "repos">>
OrgPath == RepoPath \o <<"/", "kubernetes">>

\* os.path.basename(path)
Basename(path) == Split(path, Slash)[Len(Split(path, Slash))]

\* `file_path[file_path.find(path)+len(path)-len(base):]`
MonorepoPath(file_path, path) ==
    SubSeq(file_path,
           SetMin(Occurrences(file_path, path)) + Len(path) - Len(Basename(path)),
           Len(file_path))

\* `len(ignore_owners_path_regex.findall(file_path)) == 0` is false: the path
\* holds "vendor/", anything, and then "/OWNERS".
IgnoredPath(file_path) ==
    \E i \in Occurrences(file_path, <<"vendor", "/">>) :
        \E j \in Occurrences(file_path, SlashOwners) : j >= i + 2

\* The list file_paths of lines 175-180: what find prints, without the
\* ignored paths, sorted.
FoundFiles(files) == SortedStrings({f \in DOMAIN files : ~IgnoredPath(f)})

\* file_path.endswith('ALIASES')
EndsWithAliases(file_path) == file_path # <<>> /\ file_path[Len(file_path)] = "ALIASES"

\* Lines 190-194: only the '.*' filter of a file with filters is kept.
WithoutFilters(doc) ==
    IF "filters" \in DOMAIN doc
    THEN LET all_filter == Get(doc["filters"], ".*", EmptyDict)
         IN  Updated([k \in DOMAIN doc \ {"filters"} |-> doc[k]],
                     [approvers |-> Get(all_filter, "approvers", <<>>),
                      reviewers |-> Get(all_filter, "reviewers", <<>>)])
    ELSE doc

\* `repo = '/'.join(owners_path.split('/')[:2])` and `f"{repo}/OWNERS_ALIASES"`
AliasesPath(owners_path) ==
    Join(Slice(Split(owners_path, Slash), 0, 2), Slash) \o <<Slash>> \o AliasesFileName

\* `all_owners['aliases'].get(aliases_path,{}).get('aliases',{})`
AliasesFor(als, owners_path) ==
    Get(Get(als, AliasesPath(owners_path), EmptyDict), "aliases", EmptyDict)

\* Mutant of ExpandedRecord: the record is not marked as expanded.
ExpandedRecordUnmarked(owners, la, lr) ==
    Updated(owners, [approvers |-> la, reviewers |-> lr])

\* Lines 206-209: both keys are set to the expanded lists and the record is marked.
ExpandedRecord(owners, la, lr) ==
    Updated(owners, [approvers |-> la, reviewers |-> lr, expanded |-> TRUE])

\* The files of the repositories, as file paths below repo_path.
FileOf(monorepo_path) == RepoPath \o <<Slash>> \o monorepo_path
FileRootOwners == FileOf(PathRootOwners)
FileApiOwners == FileOf(PathApiOwners)
FileAliases == FileOf(PathAliasesA)
\* vendor/OWNERS is loaded, an OWNERS file below vendor/<dir>/ is not.
PathVendorOwners == <<"kubernetes", "/", "a", "/", "vendor", "/", "OWNERS">>
PathVendoredOwners == <<"kubernetes", "/", "a", "/", "vendor", "/", "b", "/", "OWNERS">>

RootOwnersDocs ==
    {[approvers |-> <<"x", "team-a">>, reviewers |-> <<"y", "x">>, labels |-> <<"sig/foo">>],
     [approvers |-> <<"y">>]}
ApiOwnersDocs ==
    {[filters |-> [f \in {".*"} |-> [approvers |-> <<"team-a">>]], reviewers |-> <<"x">>]}
AliasesDocs ==
    {[aliases |-> [a \in {"team-a"} |-> ListValue(<<"y", "x">>)]],
     [aliases |-> [a \in {"team-a"} |-> NullValue]]}
VendorDoc == [approvers |-> <<"x">>, reviewers |-> <<"x">>]

\* os.path.join(repo_path, "kubernetes", "kubernetes"), its OWNERS_ALIASES,
\* and the directory the glob of line 276 lists.
K8sRepoPath == OrgPath \o <<Slash, "kubernetes">>
K8sAliasesFile == K8sRepoPath \o <<Slash>> \o AliasesFileName
StagingPath == K8sRepoPath \o <<Slash, "staging", Slash, "src", Slash, "k8s.io", Slash>>
StagedOwners(repo) == StagingPath \o <<repo, Slash, "OWNERS">>

\* The file OWNERS_ALIASES of the clone of kubernetes/<repo>.
AliasesFileOf(repo) == OrgPath \o <<Slash, repo, Slash>> \o AliasesFileName

\* The clone of kubernetes/kubernetes: none; its OWNERS_ALIASES and the
\* staged repository a; the staged repository a without an OWNERS_ALIASES;
\* or OWNERS_ALIASES and the staged repositories a and b, b not cloned.
K8sAliasesDoc == [aliases |-> [a \in {"team-a"} |-> ListValue(<<"x">>)]]
StagedDoc == [approvers |-> <<"team-a">>]
K8sStates ==
    {EmptyDict,
     [f \in {K8sAliasesFile, StagedOwners("a")} |->
         IF f = K8sAliasesFile THEN K8sAliasesDoc ELSE StagedDoc],
     [f \in {StagedOwners("a")} |-> StagedDoc],
     [f \in {K8sAliasesFile, StagedOwners("a"), StagedOwners("b")} |->
         IF f = K8sAliasesFile THEN K8sAliasesDoc ELSE StagedDoc]}

\* What the repositories may hold: the two vendor files of kubernetes/a, any
\* of its other three files with any of its contents, and the clone of
\* kubernetes/kubernetes.
Choices(file, docs) == {EmptyDict} \cup {[f \in {file} |-> d] : d \in docs}
RepoStates ==
    {Updated(Updated(Updated(Updated(r, b), a), k),
             [f \in {FileOf(PathVendorOwners), FileOf(PathVendoredOwners)} |-> VendorDoc]) :
        r \in Choices(FileRootOwners, RootOwnersDocs),
        b \in Choices(FileApiOwners, ApiOwnersDocs),
        a \in Choices(FileAliases, AliasesDocs),
        k \in K8sStates}

\* A file path begins with the path of a directory.
IsBelow(file, dir) == Len(file) > Len(dir) /\ SubSeq(file, 1, Len(dir)) = dir

\* `repo = d.split('/')[-1]` for every d of glob.glob(g).
StagedRepos(files) ==
    {f[Len(StagingPath) + 1] : f \in {h \in DOMAIN files : IsBelow(h, StagingPath)}}

\* cp succeeds: the OWNERS_ALIASES of kubernetes/kubernetes is there, and so
\* is the directory of the staged repository.
CanCopyTo(files, repo) ==
    /\ K8sAliasesFile \in DOMAIN files
    /\ \E f \in DOMAIN files : IsBelow(f, OrgPath \o <<Slash, repo, Slash>>)

\* The files after the cp of line 280 for each repository of `copied`.
CopiedTo(files, copied) ==
    Updated(files, [f \in {AliasesFileOf(r) : r \in copied} |-> files[K8sAliasesFile]])

\* The files of the clones of the repositories `cloned`.
ClonedRepos(files) == {f[Len(OrgPath) + 2] : f \in DOMAIN files}
ClonesOf(files, cloned) ==
    [f \in {h \in DOMAIN files : h[Len(OrgPath) + 2] \in cloned} |-> files[f]]

\* owners.yaml: no such file, an empty file, or the tables of the last dump;
\* the dump writes the records in the order of the dict, and the load gives
\* them in the order of the file.
MissingFile == [tag |-> "missing"]
EmptyFile == [tag |-> "empty"]
DumpedFile(owners, keys, als) ==
    [tag |-> "dumped", owners |-> owners, keys |-> keys, aliases |-> als]

\* load_owners_yaml, for a file that exists: {'owners':{},'aliases':{}} for
\* an empty document.
load_owners_yaml(file) ==
    IF file.tag = "empty" THEN [owners |-> EmptyDict, keys |-> <<>>, aliases |-> EmptyDict]
    ELSE [owners |-> file.owners, keys |-> file.keys, aliases |-> file.aliases]

LdInit ==
    /\ pc = "run"
    /\ repo_files \in RepoStates
    /\ owners_file \in {MissingFile, EmptyFile}
    /\ all_owners = EmptyDict
    /\ all_aliases = EmptyDict
    /\ file_paths = <<>>
    /\ owners_paths = <<>>
    /\ runs = 0
    /\ at_start = [owners |-> EmptyDict, keys |-> <<>>, aliases |-> EmptyDict]
    /\ parsed = {}
    /\ parsed_from = EmptyDict
    /\ expansions = EmptyDict
    /\ owners_keys = <<>>
    /\ ExIdle /\ PrIdle /\ SgIdle /\ RpIdle /\ CnIdle /\ CvIdle

\* load_all_repos without --refresh-repos: the clones are left as they are.
LoadAllRepos ==
    /\ pc = "run"
    /\ runs < MaxRuns
    /\ pc' = "copy"
    /\ UNCHANGED <<all_owners, ldVars, notLd>>

\* load_all_repos with --refresh-repos (lines 262-271): the org is removed
\* and every repository cloned anew, with whatever it holds now.
RefreshRepos ==
    /\ pc = "run"
    /\ runs < MaxRuns
    /\ repo_files' \in RepoStates
    /\ pc' = "copy"
    /\ UNCHANGED <<all_owners, owners_file, all_aliases, file_paths, owners_paths, runs,
                   at_start, parsed, parsed_from, expansions, owners_keys, notLd>>

\* The request or a clone fails: main ends with the org removed and the
\* repositories cloned so far.
RefreshReposFails ==
    /\ pc = "run"
    /\ runs < MaxRuns
    /\ \E files \in RepoStates :
          \E cloned \in SUBSET ClonedRepos(files) \ {ClonedRepos(files)} :
              repo_files' = ClonesOf(files, cloned)
    /\ pc' = "clone_failed"
    /\ UNCHANGED <<all_owners, owners_file, all_aliases, file_paths, owners_paths, runs,
                   at_start, parsed, parsed_from, expansions, owners_keys, notLd>>

\* copy_k8s_aliases_to_staged_repos (line 286): every staged repository
\* takes the OWNERS_ALIASES of kubernetes/kubernetes.
CopyK8sAliases ==
    /\ pc = "copy"
    /\ \A repo \in StagedRepos(repo_files) : CanCopyTo(repo_files, repo)
    /\ repo_files' = CopiedTo(repo_files, StagedRepos(repo_files))
    /\ pc' = "load"
    /\ UNCHANGED <<all_owners, owners_file, all_aliases, file_paths, owners_paths, runs,
                   at_start, parsed, parsed_from, expansions, owners_keys, notLd>>

\* A cp fails (no OWNERS_ALIASES in kubernetes/kubernetes, or a staged
\* repository that is not cloned): main ends there, after the copies to the
\* repositories that glob listed before.
CopyK8sAliasesFails ==
    /\ pc = "copy"
    /\ \E repo \in StagedRepos(repo_files) : ~CanCopyTo(repo_files, repo)
    /\ \E copied \in SUBSET {r \in StagedRepos(repo_files) : CanCopyTo(repo_files, r)} :
          repo_files' = CopiedTo(repo_files, copied)
    /\ pc' = "cp_failed"
    /\ UNCHANGED <<all_owners, owners_file, all_aliases, file_paths, owners_paths, runs,
                   at_start, parsed, parsed_from, expansions, owners_keys, notLd>>

\* Between two runs the files of the repositories change.
ChangeFiles ==
    /\ pc = "run"
    /\ runs >= 1 /\ runs < MaxRuns
    /\ repo_files' \in RepoStates \ {repo_files}
    /\ UNCHANGED <<pc, all_owners, owners_file, all_aliases, file_paths, owners_paths, runs,
                   at_start, parsed, parsed_from, expansions, owners_keys, notLd>>

\* Line 161, and lines 172-180 for the one path of `paths`.
LoadOwnersYaml ==
    /\ pc = "load"
    /\ owners_file.tag # "missing"
    /\ all_owners' = load_owners_yaml(owners_file).owners
    /\ all_aliases' = load_owners_yaml(owners_file).aliases
    /\ at_start' = load_owners_yaml(owners_file)
    /\ owners_keys' = load_owners_yaml(owners_file).keys
    /\ file_paths' = FoundFiles(repo_files)
    /\ parsed' = {}
    /\ pc' = "first_pass"
    /\ UNCHANGED <<repo_files, owners_file, owners_paths, runs, parsed_from, expansions, notLd>>

\* load_owners_yaml without the file: `owners` is not bound at line 137.
LoadOwnersYamlFails ==
    /\ pc = "load"
    /\ owners_file.tag = "missing"
    /\ pc' = "aborted"
    /\ UNCHANGED <<all_owners, ldVars, notLd>>

\* Lines 181-195 for a path that is not in the table: the file is parsed.
ParseFile ==
    /\ pc = "first_pass"
    /\ file_paths # <<>>
    /\ LET file_path == Head(file_paths)
           monorepo_path == MonorepoPath(file_path, OrgPath)
           owners_yaml_ == WithoutFilters(repo_files[file_path])
       IN  /\ IF EndsWithAliases(file_path)
              THEN /\ monorepo_path \notin DOMAIN all_aliases
                   /\ all_aliases' = Updated(all_aliases, [q \in {monorepo_path} |-> owners_yaml_])
                   /\ UNCHANGED <<all_owners, owners_keys>>
              ELSE /\ monorepo_path \notin DOMAIN all_owners
                   /\ all_owners' = Updated(all_owners, [q \in {monorepo_path} |-> owners_yaml_])
                   /\ owners_keys' = Append(owners_keys, monorepo_path)
                   /\ UNCHANGED all_aliases
           /\ parsed' = parsed \cup {monorepo_path}
           /\ parsed_from' = Updated(parsed_from, [q \in {monorepo_path} |-> repo_files[file_path]])
    /\ file_paths' = Tail(file_paths)
    /\ UNCHANGED <<pc, repo_files, owners_file, owners_paths, runs, at_start, expansions, notLd>>

\* Line 186 is false: the path is in the table already.
SkipFile ==
    /\ pc = "first_pass"
    /\ file_paths # <<>>
    /\ LET monorepo_path == MonorepoPath(Head(file_paths), OrgPath)
       IN  IF EndsWithAliases(Head(file_paths))
           THEN monorepo_path \in DOMAIN all_aliases
           ELSE monorepo_path \in DOMAIN all_owners
    /\ file_paths' = Tail(file_paths)
    /\ UNCHANGED <<pc, all_owners, repo_files, owners_file, all_aliases, owners_paths, runs,
                   at_start, parsed, parsed_from, expansions, owners_keys, notLd>>

\* The first pass is over; the second goes through all_owners['owners'].keys():
\* the records of owners.yaml first, then those parsed in this run.
FirstPassDone ==
    /\ pc = "first_pass"
    /\ file_paths = <<>>
    /\ owners_paths' = owners_keys
    /\ pc' = "expand_pass"
    /\ UNCHANGED <<all_owners, repo_files, owners_file, all_aliases, file_paths, runs,
                   at_start, parsed, parsed_from, expansions, owners_keys, notLd>>

\* Lines 199-210 for a record that is not marked: list(expanded) comes in
\* any order of the set.
ExpandRecord ==
    /\ pc = "expand_pass"
    /\ owners_paths # <<>>
    /\ LET owners_path == Head(owners_paths)
           owners == all_owners[owners_path]
           als == AliasesFor(all_aliases, owners_path)
       IN  /\ ~Get(owners, "expanded", FALSE)
           /\ \E la \in ListsOf(expand_aliases(Get(owners, "approvers", <<>>), als)),
                 lr \in ListsOf(expand_aliases(Get(owners, "reviewers", <<>>), als)) :
                 all_owners' = [all_owners EXCEPT ![owners_path] = ExpandedRecord(owners, la, lr)]
           /\ expansions' = Updated(expansions,
                  [q \in {owners_path} |-> Get(expansions, owners_path, 0) + 1])
    /\ owners_paths' = Tail(owners_paths)
    /\ UNCHANGED <<pc, repo_files, owners_file, all_aliases, file_paths, runs, at_start,
                   parsed, parsed_from, owners_keys, notLd>>

\* Lines 200-201: `continue` for a record that is marked.
SkipExpanded ==
    /\ pc = "expand_pass"
    /\ owners_paths # <<>>
    /\ Get(all_owners[Head(owners_paths)], "expanded", FALSE)
    /\ owners_paths' = Tail(owners_paths)
    /\ UNCHANGED <<pc, all_owners, repo_files, owners_file, all_aliases, file_paths, runs,
                   at_start, parsed, parsed_from, expansions, owners_keys, notLd>>

\* Line 212: load_all_owners returns.
LoadReturn ==
    /\ pc = "expand_pass"
    /\ owners_paths = <<>>
    /\ pc' = "loaded"
    /\ UNCHANGED <<all_owners, ldVars, notLd>>

\* Lines 290-293: the table is pruned and dumped to owners.yaml.
PruneAndDump ==
    /\ pc = "loaded"
    /\ all_owners' = prune_dupe_reviewers(all_owners)
    /\ owners_file' = DumpedFile(all_owners', owners_keys, all_aliases)
    /\ runs' = runs + 1
    /\ pc' = "run"
    /\ UNCHANGED <<repo_files, all_aliases, file_paths, owners_paths, at_start, parsed,
                   parsed_from, expansions, owners_keys, notLd>>

LdNext ==
    \/ ChangeFiles
    \/ LoadAllRepos
    \/ RefreshRepos
    \/ RefreshReposFails
    \/ CopyK8sAliases
    \/ CopyK8sAliasesFails
    \/ LoadOwnersYaml
    \/ LoadOwnersYamlFails
    \/ ParseFile
    \/ SkipFile
    \/ FirstPassDone
    \/ ExpandRecord
    \/ SkipExpanded
    \/ LoadReturn
    \/ PruneAndDump

SpecLoad == LdInit /\ [][LdNext]_vars

\* The paths of the files the first pass goes through.
Discovered == {MonorepoPath(FoundFiles(repo_files)[i], OrgPath) :
                  i \in 1..Len(FoundFiles(repo_files))}

\* owners_keys lists the keys of the table, each once, those of owners.yaml first.
KeysAreTheTable ==
    pc \in {"first_pass", "expand_pass", "loaded"} =>
        /\ Range(owners_keys) = DOMAIN all_owners
        /\ NoDuplicates(owners_keys)
        /\ SubSeq(owners_keys, 1, Len(at_start.keys)) = at_start.keys

\* The second pass starts with a record of owners.yaml though a record parsed
\* in this run sorts before it.
CachedRecordsComeFirst ==
    /\ pc = "expand_pass"
    /\ owners_paths = <<PathApiOwners, PathVendorOwners, PathRootOwners>>

\* The paths that were in owners.yaml when the run loaded it.
CachedPaths == DOMAIN at_start.owners \cup DOMAIN at_start.aliases

Marked(owners) == Get(owners, "expanded", FALSE)

\* C15: across the runs with refresh that share owners.yaml, aliases are
\* expanded in each record at most once: a record that is marked expanded
\* keeps its approvers and reviewers through a run, and after every run
\* every record of the table, and of the dumped owners.yaml, is marked expanded.
C15_ExpandedAtMostOnce ==
    /\ \A p \in DOMAIN expansions : expansions[p] <= 1
    /\ pc \in {"first_pass", "expand_pass", "loaded"} =>
           \A p \in DOMAIN at_start.owners :
               Marked(at_start.owners[p]) =>
                   /\ p \in DOMAIN all_owners
                   /\ all_owners[p].approvers = at_start.owners[p].approvers
                   /\ all_owners[p].reviewers = at_start.owners[p].reviewers
    /\ pc = "loaded" => \A p \in DOMAIN all_owners : Marked(all_owners[p])
    /\ owners_file.tag = "dumped" =>
           \A p \in DOMAIN owners_file.owners : Marked(owners_file.owners[p])

\* A second run is over, the OWNERS_ALIASES of kubernetes/kubernetes copied
\* to the staged repository: a record of the first run whose file holds
\* other owners now was left alone, and a record of a new file was expanded.
C15_Witness ==
    /\ pc = "loaded"
    /\ runs = 1
    /\ StagedRepos(repo_files) = {"a"}
    /\ Get(repo_files, FileAliases, EmptyDict) = K8sAliasesDoc
    /\ \E p \in DOMAIN at_start.owners :
           /\ Marked(at_start.owners[p])
           /\ FileOf(p) \in DOMAIN repo_files
           /\ repo_files[FileOf(p)] # parsed_from[p]
           /\ expansions[p] = 1
    /\ \E q \in DOMAIN all_owners \ DOMAIN at_start.owners :
           /\ expansions[q] = 1
           /\ "filters" \in DOMAIN parsed_from[q]
           /\ "team-a" \in Range(parsed_from[q].filters[".*"].approvers)

\* The run went through both passes: what the claim says of a load whose
\* owners.yaml was read.
SkipsLoadedPaths ==
    pc = "loaded" =>
        /\ parsed \cap CachedPaths = {}
        /\ \A p \in DOMAIN at_start.owners :
               /\ p \in DOMAIN all_owners
               /\ \A k \in {"approvers", "reviewers", "labels"} :
                      Get(all_owners[p], k, None) = Get(at_start.owners[p], k, None)
        /\ \A p \in DOMAIN at_start.aliases :
               p \in DOMAIN all_aliases /\ all_aliases[p] = at_start.aliases[p]
        /\ \A p \in Discovered \ CachedPaths :
               p \in parsed /\ p \in DOMAIN all_owners \cup DOMAIN all_aliases

\* C17: loading skips what is loaded: a path of owners.yaml is not parsed
\* again and keeps its approvers, reviewers and labels though its file has
\* changed, every other discovered path is parsed and added; and a run that
\* starts without any cached path, once over, has parsed every discovered file.
C17_SkipIfAlreadyLoaded ==
    /\ SkipsLoadedPaths
    /\ (pc \in {"loaded", "aborted"} /\ owners_file.tag \in {"missing", "empty"}) =>
           parsed = Discovered

\* A second run skipped a path whose file has changed and parsed a new one.
SkippedChangedFile ==
    /\ pc = "loaded"
    /\ \E p \in DOMAIN at_start.owners :
           FileOf(p) \in DOMAIN repo_files /\ repo_files[FileOf(p)] # parsed_from[p]
    /\ parsed # {}

----------------------------------------------------------------------------
(* The records of missing files in the consensus analysis.                 *)

\* C18: the analysis does not leave out the records with present = false:
\* they count as empty sets, so in the written document a subproject with a
\* record of a missing file has an empty common list for every attribute
\* class the script analyses, and no common list that is not empty,
\* whatever its other records agree on.
C18_MissingRecordEmptiesCommon ==
    pc = "written" =>
        \A i \in 1..Len(written) : \A j \in 1..Len(SubprojectsOf(written[i])) :
            LET sp == SubprojectsOf(written[i])[j]
            IN  (\E n \in 1..Len(sp.paths) : ~sp.paths[n].owners.present) =>
                    /\ \A k \in Range(AnalysedKeys(script)) :
                           k \in DOMAIN sp.common /\ sp.common[k] = <<>>
                    /\ \A k \in AttributeClasses : Get(sp.common, k, <<>>) = <<>>

\* A written subproject with a missing file and a read file that names an
\* approver.
C18_Witness ==
    /\ pc = "written"
    /\ \E i \in 1..Len(written) : \E j \in 1..Len(SubprojectsOf(written[i])) :
           LET sp == SubprojectsOf(written[i])[j]
               read == {n \in 1..Len(sp.paths) : sp.paths[n].owners.present}
           IN  /\ read # {}
               /\ read # 1..Len(sp.paths)
               /\ \E v \in Ids : \A n \in read : v \in AttrSet(sp.paths[n].owners, "approvers")
               /\ sp.union["approvers"] # <<>>

=============================================================================
